---- MODULE Spec2Model ----
(***************************************************************************)
(* PropertyPilot: the AgentCore entrypoint `invoke` of main.py, its        *)
(* session manager, the five request handlers and the keyword router.      *)
(*                                                                         *)
(* Python dicts are functions with a string domain; an absent key is a     *)
(* key outside DOMAIN.  A Python string that the code only passes around   *)
(* is a TLA+ string; a prompt, which the code lower-cases and searches, is *)
(* a sequence of text fragments.  A handler result whose `message` is a    *)
(* plain string is the dict [text |-> ...], so that DOMAIN is defined on   *)
(* every message.                                                          *)
(***************************************************************************)
EXTENDS Integers, Sequences, FiniteSets, TLC

(* ------------------------------ bounds -------------------------------- *)

\* number of invoke calls (and of direct session-manager calls) in a run
MaxRequests == 2

\* number of fragments of a prompt handed to the router on its own
MaxPromptLen == 4

\* the neighborhood scores handed to assess_investment_risk lie in
\* [-MaxNeighborhoodScore, MaxNeighborhoodScore]
MaxNeighborhoodScore == 100

\* the small purchase prices handed to calculate_roi are in -MaxPrice..MaxPrice
MaxPrice == 12

\* the small monthly rents and expenses handed to calculate_roi are in 0..MaxMonthly
MaxMonthly == 4

\* the oldest property handed to estimate_repair_costs was built MaxAge years
\* before 2025
MaxAge == 30

\* the largest number of comma-separated parts of a location
MaxParts == 3

\* the largest number of insights parsed from the answer of one source
MaxInsights == 2

\* the number of invoke calls in flight at once
MaxInflight == 3

(* --------------------------- dict helpers ----------------------------- *)

\* the empty dict {}
EmptyDict == <<>>

\* d.get(k, default)
Get(d, k, default) == IF k \in DOMAIN d THEN d[k] ELSE default

\* d[k] = v
Put(d, k, v) == (k :> v) @@ d

\* d.update(data)
DictUpdate(d, data) == data @@ d

\* the dicts that either lack key k or bind it to a value of S
Opt(k, S) == { EmptyDict } \cup { k :> v : v \in S }

(* ------------------------------ state --------------------------------- *)

VARIABLES
    sessions,         \* PropertyPilotSessionManager.sessions
    memory_managers,  \* PropertyPilotSessionManager.memory_managers (its keys)
    memory_client,    \* module-level memory_client: TRUE when one was built
    clock,            \* datetime.now(), one tick per call
    resp,             \* what the last invoke returned
    obs,              \* the last invoke call, as its caller and its log see it
    sent,             \* per session id: invoke calls so far with a non-empty prompt
    dispatched,       \* (call, type, prompt, handler) of every dispatch so far
    op,               \* the last direct session-manager call
    rt,               \* the router run on its own: its input and its choice
    tool,             \* the last direct call of a tool function and what it gave
    research,         \* a research_market_conditions call in progress
    proxy,            \* the last request to the proxy's /analyze and its answer
    flight            \* the invoke calls that run concurrently, each with its position

vars == <<sessions, memory_managers, memory_client, clock, resp, obs, sent,
          dispatched, op, rt, tool, research, proxy, flight>>

(* ------------------------- prompts as text ---------------------------- *)

\* str.lower() on one fragment of text: the capitalised fragments the prompts
\* below are built from, every other fragment is lower case already
FragLower(f) ==
    CASE f = "MARKET" -> "market"
      [] f = "Market" -> "market"
      [] f = "Research" -> "research"
      [] f = "Conditions" -> "conditions"
      [] f = "ROI" -> "roi"
      [] f = "Real" -> "real"
      [] f = "Estate" -> "estate"
      [] OTHER -> f

\* str.lower()
StrLower(s) == [i \in 1..Len(s) |-> FragLower(s[i])]

\* `kw in s` for a non-empty kw
Contains(s, kw) ==
    \E i \in 1..(Len(s) - Len(kw) + 1) : SubSeq(s, i, i + Len(kw) - 1) = kw

\* any(keyword in s for keyword in kws)
AnyKeyword(s, kws) == \E kw \in kws : Contains(s, kw)

MarketKeywords ==
    { <<"market", " ", "research">>, <<"market", " ", "conditions">>,
      <<"market", " ", "analysis">> }

OpportunityKeywords ==
    { <<"opportunities">>, <<"investment", " ", "opportunities">>,
      <<"find", " ", "investment", "s">> }

EnhancedKeywords ==
    { <<"enhanced", " ", "analysis">>, <<"comprehensive", " ", "analysis">>,
      <<"detailed", " ", "analysis">> }

ResearchKeywords ==
    { <<"research">>, <<"web", " ", "research">>, <<"automated", " ", "research">> }

PropertyKeywords ==
    { <<"property">>, <<"real", " ", "estate">>, <<"investment">>, <<"roi">> }

(* ------------------------------ routing ------------------------------- *)

KnownTypes ==
    { "automated_research", "market_research", "property_analysis",
      "enhanced_analysis", "investment_opportunities" }

\* RouteByKeywords with the research keywords tried before the market ones
RouteByKeywords_ResearchFirst(prompt) ==
    LET user_message == StrLower(prompt)
    IN  IF AnyKeyword(user_message, ResearchKeywords) THEN "automated_research"
        ELSE IF AnyKeyword(user_message, MarketKeywords) THEN "market_research"
        ELSE IF AnyKeyword(user_message, OpportunityKeywords) THEN "investment_opportunities"
        ELSE IF AnyKeyword(user_message, EnhancedKeywords) THEN "enhanced_analysis"
        ELSE IF AnyKeyword(user_message, PropertyKeywords) THEN "property_analysis"
        ELSE "enhanced_analysis"

\* handle_intelligent_routing: the handler its if-chain calls for a prompt
RouteByKeywords(prompt) ==
    LET user_message == StrLower(prompt)
    IN  IF AnyKeyword(user_message, MarketKeywords) THEN "market_research"
        ELSE IF AnyKeyword(user_message, OpportunityKeywords) THEN "investment_opportunities"
        ELSE IF AnyKeyword(user_message, EnhancedKeywords) THEN "enhanced_analysis"
        ELSE IF AnyKeyword(user_message, ResearchKeywords) THEN "automated_research"
        ELSE IF AnyKeyword(user_message, PropertyKeywords) THEN "property_analysis"
        ELSE "enhanced_analysis"

(* -------------------------- session manager --------------------------- *)

\* Python's None where the other values are strings
None == "None"

\* the record get_session builds for an unknown session id
NewSession(now) ==
    [ created_at |-> now,
      properties_analyzed |-> <<>>,
      user_preferences |-> EmptyDict,
      analysis_history |-> <<>>,
      memory_enabled |-> FALSE ]

\* get_session without the membership test: it builds the record at every call
GetSession_Reinit(store, session_id, now) ==
    Put(store, session_id, NewSession(now))

\* PropertyPilotSessionManager.get_session: the store after the call
\* (the call returns store[session_id])
GetSession(store, session_id, now) ==
    IF session_id \notin DOMAIN store
    THEN Put(store, session_id, NewSession(now))
    ELSE store

\* update_session that assigns data instead of merging it
UpdateSession_Replace(store, session_id, data, now) ==
    LET store1 == IF session_id \notin DOMAIN store
                  THEN Put(store, session_id, NewSession(now))
                  ELSE store
    IN  [store1 EXCEPT ![session_id] = Put(data, "last_updated", now)]

\* update_session on a store whose records are one shared dict
UpdateSession_Shared(store, session_id, data, now) ==
    LET store1 == GetSession(store, session_id, now)
    IN  [ id \in DOMAIN store1 |->
            Put(DictUpdate(store1[id], data), "last_updated", now) ]

\* PropertyPilotSessionManager.update_session: the store after the call
UpdateSession(store, session_id, data, now) ==
    LET store1 == GetSession(store, session_id, now)
        session == Put(DictUpdate(store1[session_id], data), "last_updated", now)
    IN  [store1 EXCEPT ![session_id] = session]

\* the key get_memory_manager files a manager under
MemoryKey(session_id, user_id) ==
    <<session_id, IF user_id = None THEN "anonymous" ELSE user_id>>

\* PropertyPilotSessionManager.get_memory_manager: TRUE when it returns a
\* manager; create_ok is whether building a new one succeeds (the memory id
\* is configured and the constructor does not raise)
GetMemoryManager(managers, client, session_id, user_id, create_ok) ==
    IF ~client THEN FALSE
    ELSE IF MemoryKey(session_id, user_id) \in managers THEN TRUE
    ELSE create_ok

\* memory_managers after get_memory_manager
MemoryManagersAfter(managers, client, session_id, user_id, create_ok) ==
    IF client /\ create_ok
    THEN managers \cup { MemoryKey(session_id, user_id) }
    ELSE managers

(* ----------------------------- handlers ------------------------------- *)
(* A handler is an operator from its arguments and the outcome `ext` of    *)
(* the external calls it makes to [result, session]: the dict it returns   *)
(* and session_data as it leaves it (session_data is the store's own       *)
(* record, mutated in place).  ext.kind is "ok" (the calls returned data), *)
(* "sentinel" (a call returned {"error": ..., "status": "failed"}) or      *)
(* "raise" (a call raised); ext.confidence is the confidence_score of the  *)
(* market research, in percent.                                            *)

\* a JSON array given as location, written as its JSON text; a payload value
\* that is a string is that string
ListLocation == "[\"Austin, TX\"]"

\* the payload values Python cannot hash: set([...]) over a list that holds
\* one raises TypeError
Unhashable(value) == value \in { ListLocation }

\* set([r["location"] for r in history]) raises
LocationSetRaises(history) ==
    \E i \in 1..Len(history) : Unhashable(history[i].location)

\* what a researcher call returns
ExternalResult(ext) ==
    IF ext.kind = "sentinel"
    THEN [ error |-> "external error", status |-> "failed" ]
    ELSE [ confidence_score |-> ext.confidence, insights |-> "insights" ]

\* handle_automated_research
HandleAutomatedResearch(payload, session_data, memory_manager, ext, now) ==
    LET location == Get(payload, "location", "Austin, TX")
        research_type == Get(payload, "research_focus", "market_conditions")
    IN  IF ext.kind = "raise"
        THEN [ result |-> [ type |-> "automated_research",
                            error |-> "external call raised",
                            status |-> "failed" ],
               session |-> session_data ]
        ELSE
          LET result == ExternalResult(ext)
              history == Append(Get(session_data, "research_history", <<>>),
                                [ timestamp |-> now,
                                  location |-> location,
                                  research_type |-> research_type,
                                  confidence |-> Get(result, "confidence_score", 0) ])
          IN  IF LocationSetRaises(history)
              THEN \* line 436 raises after the append of line 422
                   [ result |-> [ type |-> "automated_research",
                                  error |-> "unhashable type: 'list'",
                                  status |-> "failed" ],
                     session |-> Put(session_data, "research_history", history) ]
              ELSE
              [ result |-> [ type |-> "automated_research",
                             research_focus |-> research_type,
                             location |-> location,
                             result |-> result,
                             session_context |->
                               [ total_research_sessions |-> Len(history),
                                 research_locations |->
                                   { history[i].location : i \in 1..Len(history) } ] ],
                session |-> Put(session_data, "research_history", history) ]

\* _extract_actionable_insights, the insights it derives from the confidence
\* (0.7 and 0.4 in percent)
ExtractActionableInsights(market_data) ==
    LET confidence == Get(market_data, "confidence_score", 0)
    IN  IF confidence > 70 THEN { "high confidence" }
        ELSE IF confidence < 40 THEN { "limited data" }
        ELSE {}

\* handle_market_research
HandleMarketResearch(payload, session_data, memory_manager, ext, now) ==
    IF ext.kind = "raise"
    THEN [ result |-> [ type |-> "market_research",
                        error |-> "external call raised",
                        status |-> "failed" ],
           session |-> session_data ]
    ELSE
      LET market_data == ExternalResult(ext)
      IN  [ result |-> [ type |-> "market_research",
                         location |-> Get(payload, "location", "Austin, TX"),
                         property_type |-> Get(payload, "property_type", "residential"),
                         market_data |-> market_data,
                         actionable_insights |-> ExtractActionableInsights(market_data),
                         timestamp |-> now ],
            session |-> session_data ]

\* f"{location}_{max_price}"
LocationPriceKey(location, max_price) == <<location, "_", max_price>>

\* handle_enhanced_analysis
HandleEnhancedAnalysis(payload, session_data, memory_manager, ext, now) ==
    LET location == Get(payload, "location", "Austin, TX")
        max_price == Get(payload, "max_price", 500000)
        user_preferences == Get(payload, "user_preferences", EmptyDict)
    IN  IF ext.kind = "raise"
        THEN [ result |-> [ message |-> [ text |-> "Enhanced analysis failed" ],
                            type |-> "enhanced_analysis",
                            error |-> "external call raised",
                            status |-> "failed" ],
               session |-> session_data ]
        ELSE
          LET enhanced_result ==
                IF memory_manager
                THEN [ memory_enhanced_analysis |-> "agent message",
                       standard_analysis |-> "analysis",
                       memory_integration |-> "enabled" ]
                ELSE [ original_analysis |-> "analysis",
                       web_research |->
                         [ market_conditions |->
                             [ confidence_score |-> ext.confidence ],
                           investment_opportunities |-> ExternalResult(ext) ],
                       memory_integration |-> "disabled" ]
              analysis_record ==
                [ timestamp |-> now,
                  location |-> location,
                  max_price |-> max_price,
                  analysis_type |-> "enhanced",
                  user_preferences |-> user_preferences,
                  memory_enabled |-> memory_manager,
                  confidence |->
                    Get(Get(Get(enhanced_result, "web_research", EmptyDict),
                            "market_conditions", EmptyDict),
                        "confidence_score", 80) ]
              analysis_history == Append(session_data["analysis_history"], analysis_record)
              properties_analyzed ==
                Append(session_data["properties_analyzed"],
                       LocationPriceKey(location, max_price))
          IN  [ result |-> [ message |-> [ text |-> "Enhanced analysis completed" ],
                             type |-> "enhanced_analysis",
                             location |-> location,
                             max_price |-> max_price,
                             enhanced_analysis |-> enhanced_result,
                             session_context |->
                               [ total_analyses |-> Len(analysis_history),
                                 enhanced_analyses |->
                                   Cardinality({ i \in 1..Len(analysis_history) :
                                     Get(analysis_history[i], "analysis_type", None)
                                       = "enhanced" }),
                                 memory_enabled |-> memory_manager,
                                 unique_locations |->
                                   Cardinality({ properties_analyzed[i] :
                                     i \in 1..Len(properties_analyzed) }) ] ],
                session |-> Put(Put(session_data, "analysis_history", analysis_history),
                                "properties_analyzed", properties_analyzed) ]

\* _generate_opportunity_recommendations, by the branch it takes
GenerateOpportunityRecommendations(opportunities) ==
    IF Get(opportunities, "status", None) = "failed"
    THEN { "unable to research" }
    ELSE { "monitor market", "seasonal trends" }

\* handle_investment_opportunities without its try/except
HandleInvestmentOpportunities_Uncaught(payload, session_data, memory_manager, ext, now) ==
    LET criteria == Get(payload, "criteria", EmptyDict)
        location == Get(criteria, "location", Get(payload, "location", "Austin, TX"))
    IN  IF ext.kind = "raise"
        THEN [ result |-> [ raised |-> "external call raised" ],
               session |-> session_data ]
        ELSE
          LET opportunities == ExternalResult(ext)
          IN  [ result |-> [ type |-> "investment_opportunities",
                             criteria |-> criteria,
                             location |-> location,
                             opportunities |-> opportunities,
                             recommendations |->
                               GenerateOpportunityRecommendations(opportunities),
                             timestamp |-> now ],
                session |-> session_data ]

\* handle_investment_opportunities
HandleInvestmentOpportunities(payload, session_data, memory_manager, ext, now) ==
    LET criteria == Get(payload, "criteria", EmptyDict)
        location == Get(criteria, "location", Get(payload, "location", "Austin, TX"))
    IN  IF ext.kind = "raise"
        THEN [ result |-> [ type |-> "investment_opportunities",
                            error |-> "external call raised",
                            status |-> "failed" ],
               session |-> session_data ]
        ELSE
          LET opportunities == ExternalResult(ext)
          IN  [ result |-> [ type |-> "investment_opportunities",
                             criteria |-> criteria,
                             location |-> location,
                             opportunities |-> opportunities,
                             recommendations |->
                               GenerateOpportunityRecommendations(opportunities),
                             timestamp |-> now ],
                session |-> session_data ]

\* handle_property_analysis without its try/except
HandlePropertyAnalysis_Uncaught(payload, session_data, memory_manager, ext, now) ==
    LET location == Get(payload, "location", "Austin, TX")
        max_price == Get(payload, "max_price", 500000)
    IN  IF ext.kind = "raise"
        THEN [ result |-> [ raised |-> "external call raised" ],
               session |-> session_data ]
        ELSE IF ext.kind = "sentinel"
        THEN [ result |-> [ raised |-> "'analysis_result'" ],
               session |-> session_data ]
        ELSE
          LET analysis_history ==
                Append(session_data["analysis_history"],
                       [ timestamp |-> now,
                         location |-> location,
                         max_price |-> max_price,
                         result_summary |-> "summary" ])
          IN  IF LocationSetRaises(analysis_history)
              THEN [ result |-> [ raised |-> "unhashable type: 'list'" ],
                     session |-> Put(session_data, "analysis_history", analysis_history) ]
              ELSE
              [ result |-> [ type |-> "property_analysis",
                             analysis |-> "analysis",
                             session_context |->
                               [ total_analyses |-> Len(analysis_history),
                                 preferred_locations |->
                                   { analysis_history[i].location :
                                       i \in 1..Len(analysis_history) } ] ],
                session |-> Put(session_data, "analysis_history", analysis_history) ]

\* handle_property_analysis; a result of analyze_property_investment without
\* the key "analysis_result" raises KeyError before anything is stored
HandlePropertyAnalysis(payload, session_data, memory_manager, ext, now) ==
    LET location == Get(payload, "location", "Austin, TX")
        max_price == Get(payload, "max_price", 500000)
    IN  IF ext.kind = "raise"
        THEN [ result |-> [ type |-> "property_analysis",
                            error |-> "external call raised",
                            status |-> "failed" ],
               session |-> session_data ]
        ELSE IF ext.kind = "sentinel"
        THEN [ result |-> [ type |-> "property_analysis",
                            error |-> "'analysis_result'",
                            status |-> "failed" ],
               session |-> session_data ]
        ELSE
          LET analysis_history ==
                Append(session_data["analysis_history"],
                       [ timestamp |-> now,
                         location |-> location,
                         max_price |-> max_price,
                         result_summary |-> "summary" ])
          IN  IF LocationSetRaises(analysis_history)
              THEN \* line 637 raises after the append of line 625
                   [ result |-> [ type |-> "property_analysis",
                                  error |-> "unhashable type: 'list'",
                                  status |-> "failed" ],
                     session |-> Put(session_data, "analysis_history", analysis_history) ]
              ELSE
              [ result |-> [ type |-> "property_analysis",
                             analysis |-> "analysis",
                             session_context |->
                               [ total_analyses |-> Len(analysis_history),
                                 preferred_locations |->
                                   { analysis_history[i].location :
                                       i \in 1..Len(analysis_history) } ] ],
                session |-> Put(session_data, "analysis_history", analysis_history) ]

\* the handler of a given name, called with these arguments
CallHandler(name, payload, session_data, memory_manager, ext, now) ==
    CASE name = "automated_research" ->
           HandleAutomatedResearch(payload, session_data, memory_manager, ext, now)
      [] name = "market_research" ->
           HandleMarketResearch(payload, session_data, memory_manager, ext, now)
      [] name = "enhanced_analysis" ->
           HandleEnhancedAnalysis(payload, session_data, memory_manager, ext, now)
      [] name = "investment_opportunities" ->
           HandleInvestmentOpportunities(payload, session_data, memory_manager, ext, now)
      [] name = "property_analysis" ->
           HandlePropertyAnalysis(payload, session_data, memory_manager, ext, now)

\* handle_intelligent_routing that prefers the kind of analysis the session
\* has run before over the prompt's keywords
HandleIntelligentRouting_BySession(payload, session_data, memory_manager, ext, now) ==
    CallHandler(IF Len(session_data["analysis_history"]) > 0
                THEN "property_analysis"
                ELSE RouteByKeywords(Get(payload, "prompt", <<>>)),
                payload, session_data, FALSE, ext, now)

\* handle_intelligent_routing that hands its memory manager on to the
\* handler it picks
HandleIntelligentRouting_WithMemory(payload, session_data, memory_manager, ext, now) ==
    CallHandler(RouteByKeywords(Get(payload, "prompt", <<>>)),
                payload, session_data, memory_manager, ext, now)

\* handle_intelligent_routing: it calls the handler its if-chain picks with
\* (payload, session_data), so without the memory manager
HandleIntelligentRouting(payload, session_data, memory_manager, ext, now) ==
    CallHandler(RouteByKeywords(Get(payload, "prompt", <<>>)),
                payload, session_data, FALSE, ext, now)

\* invoke's if-chain on request_type: the handler call it makes
InvokeDispatch(request_type, input_data, session_data, memory_manager, ext, now) ==
    IF request_type = "automated_research"
    THEN HandleAutomatedResearch(input_data, session_data, memory_manager, ext, now)
    ELSE IF request_type = "market_research"
    THEN HandleMarketResearch(input_data, session_data, memory_manager, ext, now)
    ELSE IF request_type = "property_analysis"
    THEN HandlePropertyAnalysis(input_data, session_data, memory_manager, ext, now)
    ELSE IF request_type = "enhanced_analysis"
    THEN HandleEnhancedAnalysis(input_data, session_data, memory_manager, ext, now)
    ELSE IF request_type = "investment_opportunities"
    THEN HandleInvestmentOpportunities(input_data, session_data, memory_manager, ext, now)
    ELSE HandleIntelligentRouting(input_data, session_data, memory_manager, ext, now)

(* ------------------------------ invoke -------------------------------- *)

\* the context argument: None, or an object with the attributes `attrs`
NoContext == [ present |-> FALSE, attrs |-> EmptyDict ]

\* hasattr(context, name), for a context that is not None
HasAttr(context, name) == context.present /\ name \in DOMAIN context.attrs

\* extract_user_from_token that verifies the signature, as jwt.decode does
\* by default
ExtractUserFromToken_Verified(auth_token) ==
    IF auth_token = EmptyDict \/ ~auth_token.well_formed \/ ~auth_token.signature_valid
    THEN EmptyDict
    ELSE [ user_id |-> auth_token.claims.sub,
           username |-> auth_token.claims.username,
           email |-> auth_token.claims.email ]

\* CognitoAuthHelper.extract_user_from_token: the user dict, or EmptyDict for
\* None; jwt.decode(..., verify_signature=False) reads the claims of every
\* well-formed token and does not look at token.signature_valid
ExtractUserFromToken(auth_token) ==
    IF auth_token = EmptyDict \/ ~auth_token.well_formed
    THEN EmptyDict
    ELSE [ user_id |-> auth_token.claims.sub,
           username |-> auth_token.claims.username,
           email |-> auth_token.claims.email ]

\* f"session_{now:%Y%m%d_%H%M%S}_{uuid4[:8]}": a fresh id at every call
GeneratedSessionId(now) == "session_" \o ToString(now)

\* the session id invoke settles on
SessionIdOf(input_data, context, now) ==
    IF HasAttr(context, "session_id") THEN context.attrs.session_id
    ELSE IF Get(input_data, "session_id", "") # "" THEN input_data.session_id
    ELSE GeneratedSessionId(now)

\* `user_message is None`, which .get("prompt", "") never yields
PromptMissing_IsNone(user_message) == FALSE

\* `not user_message`
PromptMissing(user_message) == user_message = <<>>

\* the dict invoke returns from its except branch
ErrorResponse(error, session_id, now) ==
    [ output |-> [ error |-> error,
                   timestamp |-> now,
                   session_id |-> session_id,
                   status |-> "error",
                   service |-> "PropertyPilot-AgentCore" ] ]

\* the dict invoke returns from its try branch
SuccessResponse(result, session_data, session_id, user_id, request_type, location, user_info, user_preferences, now) ==
    [ output |->
        [ message |-> Get(result, "message", result),
          timestamp |-> now,
          session_id |-> session_id,
          user_id |-> user_id,
          request_type |-> request_type,
          location |-> location,
          service |-> "PropertyPilot-AgentCore",
          memory_enabled |-> Get(session_data, "memory_enabled", FALSE),
          authentication |->
            [ authenticated |-> user_info # EmptyDict,
              username |-> Get(user_info, "username", None),
              email |-> Get(user_info, "email", None),
              preferences_loaded |-> user_preferences # EmptyDict ],
          analysis_metadata |->
            [ session_requests |-> Get(session_data, "request_count", 1),
              properties_analyzed |-> Len(Get(session_data, "properties_analyzed", <<>>)),
              analysis_history_count |-> Len(Get(session_data, "analysis_history", <<>>)),
              personalized |-> user_info # EmptyDict ] ] ]

\* invoke(payload, context), one call from entry to return.  Besides its two
\* arguments the call reads the outcome `ext` of its handler's external
\* calls, the preferences `cognito_prefs` that Cognito returns for the user,
\* and whether a memory manager can be built (`create_ok`).
invoke(input_data, context, ext, cognito_prefs, create_ok) ==
    /\ clock < MaxRequests
    /\ LET now == clock + 1
           auth_token ==
             IF Get(input_data, "auth_token", EmptyDict) # EmptyDict
             THEN input_data.auth_token
             ELSE Get(input_data, "authorization", EmptyDict)
           user_info == ExtractUserFromToken(auth_token)
           user_preferences ==
             IF user_info # EmptyDict THEN cognito_prefs ELSE EmptyDict
           session_id == SessionIdOf(input_data, context, now)
           user_id ==
             IF user_info # EmptyDict THEN user_info.user_id
             ELSE Get(input_data, "user_id", Get(input_data, "actor_id", None))
           user_message == Get(input_data, "prompt", <<>>)
           request_type == Get(input_data, "type", "general")
           location == Get(input_data, "location", "Austin, TX")
           \* lines 313-322: the session record and the memory manager
           store1 == GetSession(sessions, session_id, now)
           memory_manager ==
             GetMemoryManager(memory_managers, memory_client, session_id, user_id, create_ok)
           session1 ==
             IF user_info # EmptyDict
             THEN Put(Put(store1[session_id], "authenticated_user", user_info),
                      "user_preferences", user_preferences)
             ELSE store1[session_id]
           session_data ==
             IF memory_manager THEN Put(session1, "memory_enabled", TRUE) ELSE session1
           \* lines 336-355: the handler, then update_session
           ran == InvokeDispatch(request_type, input_data, session_data,
                                 memory_manager, ext, now)
           store2 ==
             UpdateSession([store1 EXCEPT ![session_id] = ran.session], session_id,
                           [ last_request |-> input_data,
                             last_response |-> ran.result,
                             request_count |-> Get(ran.session, "request_count", 0) + 1 ],
                           now)
           seen == [ call |-> now,
                     session_id |-> session_id,
                     context_given |-> context.present,
                     context_session_id |->
                       IF HasAttr(context, "session_id")
                       THEN context.attrs.session_id ELSE None,
                     input_session_id |-> Get(input_data, "session_id", None),
                     prompt_given |-> user_message # <<>>,
                     type_given |-> Get(input_data, "type", None),
                     auth_token |-> auth_token,
                     input_user_id |-> Get(input_data, "user_id", None),
                     authenticated |-> user_info # EmptyDict,
                     user_id |-> user_id,
                     attached |-> FALSE, validated |-> FALSE,
                     handler |-> None, handler_status |-> None,
                     external |-> None, memory_manager |-> FALSE ]
       IN
       /\ clock' = now
       /\ sent' = IF user_message # <<>>
                  THEN Put(sent, session_id, Get(sent, session_id, 0) + 1)
                  ELSE sent
       /\ UNCHANGED <<memory_client, op, rt, tool, research, proxy, flight>>
       /\ IF ~HasAttr(context, "attach")
          THEN \* line 308: context.attach(ctx) raises AttributeError
               /\ resp' = ErrorResponse("AttributeError: attach", session_id, now)
               /\ obs' = seen
               /\ UNCHANGED <<sessions, memory_managers, dispatched>>
          ELSE
            /\ memory_managers' =
                 MemoryManagersAfter(memory_managers, memory_client,
                                     session_id, user_id, create_ok)
            /\ IF PromptMissing(user_message)
               THEN \* line 333: raise ValueError
                    /\ resp' = ErrorResponse("ValueError: No prompt found in input",
                                             session_id, now)
                    /\ sessions' = [store1 EXCEPT ![session_id] = session_data]
                    /\ obs' = [seen EXCEPT !.attached = TRUE,
                                           !.memory_manager = memory_manager]
                    /\ UNCHANGED dispatched
               ELSE IF "raised" \in DOMAIN ran.result
               THEN \* line 383: an exception that left the handler
                    /\ resp' = ErrorResponse(ran.result.raised, session_id, now)
                    /\ sessions' = [store1 EXCEPT ![session_id] = ran.session]
                    /\ obs' = [seen EXCEPT !.attached = TRUE, !.validated = TRUE,
                                           !.handler_status = "raised",
                                           !.external = ext.kind,
                                           !.memory_manager = memory_manager]
                    /\ UNCHANGED dispatched
               ELSE /\ sessions' = store2
                    /\ resp' = SuccessResponse(ran.result, store2[session_id], session_id,
                                               user_id, request_type, location,
                                               user_info, user_preferences, now)
                    /\ obs' = [seen EXCEPT !.attached = TRUE, !.validated = TRUE,
                                           !.handler = ran.result.type,
                                           !.handler_status =
                                             Get(ran.result, "status", "completed"),
                                           !.external = ext.kind,
                                           !.memory_manager = memory_manager]
                    /\ dispatched' = dispatched \cup
                         { [ call |-> now,
                             type |-> Get(input_data, "type", None),
                             prompt |-> user_message,
                             handler |-> ran.result.type ] }

(* ------------------------- the service's runs ------------------------- *)

\* the context the AgentCore runtime passes: a RequestContext, which has a
\* session_id and no attach
RequestContext(session_id) ==
    [ present |-> TRUE, attrs |-> [ session_id |-> session_id ] ]

\* an object that offers attach and no session_id, as the opentelemetry
\* context module does
AttachContext == [ present |-> TRUE, attrs |-> [ attach |-> TRUE ] ]

\* an object that offers both
SessionAttachContext(session_id) ==
    [ present |-> TRUE, attrs |-> [ session_id |-> session_id, attach |-> TRUE ] ]

\* the payload test_main_service sends
TestMainServicePayload ==
    [ prompt |-> <<"hello", " ", "real", " ", "estate", " ", "investment", " ",
                   "opportunities", " ", "market">>,
      type |-> "market_research",
      location |-> "Austin, TX",
      max_price |-> 500000 ]

\* one request of every known type
TypedPayloads ==
    { ("prompt" :> <<"hello">>) @@ ("type" :> t) @@ ("session_id" :> "s1") :
        t \in KnownTypes }

\* requests left to the keyword router
RoutedPayloads ==
    { ("prompt" :> p) @@ t @@ ("session_id" :> "s2") :
        p \in { <<"hello">>, <<"ROI">> }, t \in Opt("type", { "general" }) }

\* known types with the prompt of another handler
CrossPayloads ==
    { [ prompt |-> <<"ROI">>, type |-> "market_research", session_id |-> "s2" ],
      [ prompt |-> <<"Market", " ", "Research">>, type |-> "enhanced_analysis",
        location |-> "Dallas, TX" ] }

\* requests without a prompt, or with the empty one
RejectedPayloads ==
    { p @@ t @@ ("session_id" :> "s1") :
        p \in Opt("prompt", { <<>> }), t \in Opt("type", { "market_research" }) }

Payloads == TypedPayloads \cup RoutedPayloads \cup CrossPayloads \cup RejectedPayloads

\* the calls made: every payload with a context that offers attach, and the
\* test's payload and a rejected one with each kind of context
Requests ==
    ((Payloads \cup { TestMainServicePayload }) \X { AttachContext })
    \cup ({ TestMainServicePayload, [ session_id |-> "s1" ] }
          \X { NoContext, RequestContext("s1"), SessionAttachContext("s2") })

ExtOutcomes ==
    { [ kind |-> "ok", confidence |-> 90 ],
      [ kind |-> "sentinel", confidence |-> 50 ],
      [ kind |-> "raise", confidence |-> 0 ] }

NoCall ==
    [ call |-> 0,
      session_id |-> None, context_given |-> FALSE,
      context_session_id |-> None, input_session_id |-> None,
      prompt_given |-> FALSE,
      type_given |-> None, auth_token |-> EmptyDict, input_user_id |-> None,
      authenticated |-> FALSE, user_id |-> None,
      attached |-> FALSE, validated |-> FALSE,
      handler |-> None, handler_status |-> None, external |-> None,
      memory_manager |-> FALSE ]

NoOp == [ name |-> None, session_id |-> None, data |-> EmptyDict, now |-> 0 ]

NoRoute == [ input |-> EmptyDict, handler |-> None ]

NoTool == [ name |-> None ]

NoResearch == [ state |-> None ]

NoProxy == [ status |-> 0 ]

NoFlight == [ r \in 1..MaxInflight |-> [ pc |-> "idle" ] ]

\* the module after import: an empty store, memory_client built or not
Init ==
    /\ sessions = EmptyDict
    /\ memory_managers = {}
    /\ memory_client \in BOOLEAN
    /\ clock = 0
    /\ resp = EmptyDict
    /\ obs = NoCall
    /\ sent = EmptyDict
    /\ dispatched = {}
    /\ op = NoOp
    /\ rt = NoRoute
    /\ tool = NoTool
    /\ research = NoResearch
    /\ proxy = NoProxy
    /\ flight = NoFlight

Next ==
    \E request \in Requests, ext \in ExtOutcomes :
        invoke(request[1], request[2], ext, EmptyDict, TRUE)

Spec == Init /\ [][Next]_vars

(* ------------------------ requests with a token ------------------------ *)

\* the claims of a Cognito token; `sub` can be missing from a token that was
\* not issued by Cognito
TokenClaims ==
    { [ sub |-> "alice", username |-> "alice", email |-> "alice@example.com" ],
      [ sub |-> "bob", username |-> "bob", email |-> "bob@example.com" ],
      [ sub |-> None, username |-> "carol", email |-> None ] }

\* bearer tokens: a well-formed one carries claims and a signature that
\* verifies against the user pool's keys or does not; a text that is not a
\* JWT carries nothing
AuthTokens ==
    { [ well_formed |-> TRUE, claims |-> c, signature_valid |-> v ] :
        c \in TokenClaims, v \in BOOLEAN }
    \cup { [ well_formed |-> FALSE, claims |-> EmptyDict, signature_valid |-> FALSE ] }

\* requests that carry a token under one of its two keys, with or without a
\* user_id of their own
AuthPayloads ==
    { ("prompt" :> <<"hello">>) @@ ("session_id" :> "s1") @@ t @@ u :
        t \in { (k :> token) : k \in { "auth_token", "authorization" },
                               token \in AuthTokens } \cup { EmptyDict },
        u \in Opt("user_id", { "alice", "mallory" }) }

\* the preferences Cognito returns for a user
CognitoPreferences == { EmptyDict, [ risk_tolerance |-> "moderate" ] }

NextAuth ==
    \E input_data \in AuthPayloads,
       context \in { AttachContext, RequestContext("s1") },
       cognito_prefs \in CognitoPreferences :
        invoke(input_data, context, [ kind |-> "ok", confidence |-> 90 ],
               cognito_prefs, TRUE)

SpecAuth == Init /\ [][NextAuth]_vars

(* --------------------- invoke calls in flight at once ------------------ *)
(* invoke is a coroutine: lines 266-333 run without an await, then the      *)
(* call is suspended in the external calls its handler awaits, and from     *)
(* the return of the last of them to the return of invoke (the handler's    *)
(* writes to session_data, update_session at 351-355 and the response at    *)
(* 358-381) there is no await again.  session_data is the store's own dict, *)
(* so what a resumed call reads is the record as it is then.                *)

\* invoke up to the first await of its handler, for the r-th call; the calls
\* come with a context that offers attach and without a token
invoke_enter(r, input_data, create_ok) ==
    /\ flight[r].pc = "idle"
    /\ \A q \in 1..(r - 1) : flight[q].pc # "idle"
    /\ LET now == clock + 1
           session_id == SessionIdOf(input_data, AttachContext, now)
           user_id == Get(input_data, "user_id", Get(input_data, "actor_id", None))
           user_message == Get(input_data, "prompt", <<>>)
           store1 == GetSession(sessions, session_id, now)
           memory_manager ==
             GetMemoryManager(memory_managers, memory_client, session_id, user_id, create_ok)
           session_data ==
             IF memory_manager
             THEN Put(store1[session_id], "memory_enabled", TRUE)
             ELSE store1[session_id]
       IN  /\ clock' = now
           /\ sessions' = [store1 EXCEPT ![session_id] = session_data]
           /\ memory_managers' =
                MemoryManagersAfter(memory_managers, memory_client,
                                    session_id, user_id, create_ok)
           /\ flight' = [flight EXCEPT ![r] =
                IF PromptMissing(user_message)
                THEN [ pc |-> "done", session_id |-> session_id,
                       overlapped |-> 0,
                       response |-> ErrorResponse("ValueError: No prompt found in input",
                                                  session_id, now) ]
                ELSE [ pc |-> "awaiting", session_id |-> session_id,
                       user_id |-> user_id, input_data |-> input_data,
                       memory_manager |-> memory_manager ]]
    /\ UNCHANGED <<memory_client, resp, obs, sent, dispatched, op, rt, tool, research,
                   proxy>>

\* the r-th call from the return of its handler's last external call to its
\* own return
invoke_resume(r, ext) ==
    /\ flight[r].pc = "awaiting"
    /\ LET now == clock + 1
           session_id == flight[r].session_id
           input_data == flight[r].input_data
           request_type == Get(input_data, "type", "general")
           ran == InvokeDispatch(request_type, input_data, sessions[session_id],
                                 flight[r].memory_manager, ext, now)
           store2 ==
             UpdateSession([sessions EXCEPT ![session_id] = ran.session], session_id,
                           [ last_request |-> input_data,
                             last_response |-> ran.result,
                             request_count |-> Get(ran.session, "request_count", 0) + 1 ],
                           now)
       IN  /\ clock' = now
           /\ sessions' = store2
           /\ flight' = [flight EXCEPT ![r] =
                [ pc |-> "done", session_id |-> session_id,
                  overlapped |->
                    Cardinality({ q \in 1..MaxInflight : flight[q].pc = "awaiting" }) - 1,
                  response |->
                    SuccessResponse(ran.result, store2[session_id], session_id,
                                    flight[r].user_id, request_type,
                                    Get(input_data, "location", "Austin, TX"),
                                    EmptyDict, EmptyDict, now) ]]
    /\ UNCHANGED <<memory_managers, memory_client, resp, obs, sent, dispatched, op, rt,
                   tool, research, proxy>>

\* requests for one session whose handlers write to the session record
ConcurrentPayloads ==
    { ("session_id" :> "s1") @@ p @@ t :
        p \in Opt("prompt", { <<"hello">> }),
        t \in Opt("type", { "enhanced_analysis", "property_analysis" }) }

NextConcurrent ==
    \/ \E r \in 1..MaxInflight, input_data \in ConcurrentPayloads :
          invoke_enter(r, input_data, TRUE)
    \/ \E r \in 1..MaxInflight,
          ext \in { [ kind |-> "ok", confidence |-> 90 ],
                    [ kind |-> "raise", confidence |-> 0 ] } :
          invoke_resume(r, ext)

SpecConcurrent == Init /\ [][NextConcurrent]_vars

(* ------------------------ requests that fail --------------------------- *)

\* requests for one session to the three handlers that keep a history, with
\* the default location or a JSON array as location
HistoryPayloads ==
    { ("prompt" :> <<"hello">>) @@ ("session_id" :> "s1") @@ ("type" :> t) @@ l :
        t \in { "property_analysis", "enhanced_analysis", "automated_research" },
        l \in Opt("location", { ListLocation }) }

NextHistory ==
    \E input_data \in HistoryPayloads, ext \in ExtOutcomes :
        invoke(input_data, AttachContext, ext, EmptyDict, TRUE)

SpecHistory == Init /\ [][NextHistory]_vars

(* ------------------- enhanced analyses of a session -------------------- *)

\* requests for one session that end in handle_enhanced_analysis, by their
\* type or through the router's default, with and without a location and a
\* price of their own
EnhancedPayloads ==
    { ("prompt" :> <<"hello">>) @@ ("session_id" :> "s1") @@ t @@ l @@ m :
        t \in Opt("type", { "enhanced_analysis", "general", "custom" }),
        l \in Opt("location", { "Dallas, TX" }),
        m \in Opt("max_price", { 400000 }) }

NextEnhanced ==
    \E input_data \in EnhancedPayloads,
       ext \in { [ kind |-> "ok", confidence |-> 90 ],
                 [ kind |-> "raise", confidence |-> 0 ] } :
        invoke(input_data, AttachContext, ext, EmptyDict, TRUE)

SpecEnhanced == Init /\ [][NextEnhanced]_vars

(* ------------------- the session manager on its own ------------------- *)

\* get_session(session_id), called directly
get_session(session_id) ==
    /\ clock < MaxRequests
    /\ clock' = clock + 1
    /\ sessions' = GetSession(sessions, session_id, clock + 1)
    /\ op' = [ name |-> "get_session", session_id |-> session_id,
               data |-> EmptyDict, now |-> clock + 1 ]
    /\ UNCHANGED <<memory_managers, memory_client, resp, obs, sent, dispatched, rt,
                   tool, research, proxy, flight>>

\* update_session(session_id, data), called directly
update_session(session_id, data) ==
    /\ clock < MaxRequests
    /\ clock' = clock + 1
    /\ sessions' = UpdateSession(sessions, session_id, data, clock + 1)
    /\ op' = [ name |-> "update_session", session_id |-> session_id,
               data |-> data, now |-> clock + 1 ]
    /\ UNCHANGED <<memory_managers, memory_client, resp, obs, sent, dispatched, rt,
                   tool, research, proxy, flight>>

StoreIds == { "s1", "s2" }

\* partial records handed to update_session: the keys invoke writes, a key
\* get_session initialised, and last_updated itself
StoreData ==
    { a @@ b @@ c @@ d :
        a \in Opt("request_count", { 1, 2 }),
        b \in Opt("last_request", { [ prompt |-> <<"hello">> ] }),
        c \in Opt("memory_enabled", { TRUE }),
        d \in Opt("last_updated", { 0 }) }

NextStore ==
    \/ \E session_id \in StoreIds : get_session(session_id)
    \/ \E session_id \in StoreIds, data \in StoreData : update_session(session_id, data)

SpecStore == Init /\ [][NextStore]_vars

(* ------------------------ the router on its own ----------------------- *)

\* the fragments the router's prompts are built from
RouterFragments ==
    { "market", " ", "research", "analysis", "opportunities", "investment",
      "enhanced", "roi", "hello", "MARKET" }

\* prompts that reach the keywords the fragments above do not spell
ExtraPrompts ==
    { <<"Market", " ", "Conditions">>, <<"find", " ", "investment", "s">>,
      <<"comprehensive", " ", "analysis">>, <<"detailed", " ", "analysis">>,
      <<"web", " ", "research">>, <<"automated", " ", "research">>,
      <<"property">>, <<"Real", " ", "Estate">>, <<"ROI">>, <<"Research">>,
      <<"hello", " ", "investment", "s">> }

RouterPrompts ==
    UNION { [1..n -> RouterFragments] : n \in 1..MaxPromptLen } \cup ExtraPrompts

\* requests whose type is absent, "general", unknown, or known
RouterPayloads ==
    { ("prompt" :> p) @@ t :
        p \in RouterPrompts, t \in Opt("type", { "general", "chat", "property_analysis" }) }

InitRoute ==
    /\ sessions = EmptyDict
    /\ memory_managers = {}
    /\ memory_client = FALSE
    /\ clock = 0
    /\ resp = EmptyDict
    /\ obs = NoCall
    /\ sent = EmptyDict
    /\ dispatched = {}
    /\ op = NoOp
    /\ rt \in { [ input |-> p, handler |-> None ] : p \in RouterPayloads }
    /\ tool = NoTool
    /\ research = NoResearch
    /\ proxy = NoProxy
    /\ flight = NoFlight

\* the dispatch of invoke on rt.input: the handler that runs
route ==
    /\ rt.handler = None
    /\ rt' = [rt EXCEPT !.handler =
                InvokeDispatch(Get(rt.input, "type", "general"), rt.input,
                               NewSession(0), FALSE,
                               [ kind |-> "ok", confidence |-> 90 ], 0).result.type]
    /\ UNCHANGED <<sessions, memory_managers, memory_client, clock, resp, obs, sent,
                   dispatched, op, tool, research, proxy, flight>>

NextRoute == route

SpecRoute == InitRoute /\ [][NextRoute]_vars

(* ------------------------- the tool functions ------------------------- *)
(* Numbers are fixed-point integers: the unit of every quantity is given   *)
(* where it is introduced.  Python's round(x, n) gives a nearest value     *)
(* with n decimals; which neighbour it gives for a value half-way between  *)
(* two depends on the binary representation of x, so both are allowed.     *)

\* |n|
Abs(n) == IF n < 0 THEN -n ELSE n

\* round(n / d) for d # 0: the integers nearest to the quotient
Nearest(n, d) ==
    LET nn == IF d < 0 THEN -n ELSE n
        dd == Abs(d)
        f == nn \div dd
        r == nn - f * dd
    IN  IF 2 * r < dd THEN { f }
        ELSE IF 2 * r > dd THEN { f + 1 }
        ELSE { f, f + 1 }

Max(a, b) == IF a >= b THEN a ELSE b

Min(a, b) == IF a <= b THEN a ELSE b

\* base_risk of assess_investment_risk before round(), in hundredths;
\* market_data["neighborhood_score"] is in tenths
BaseRisk(market_data) ==
    LET market_conditions == Get(market_data, "market_conditions", None)
        base0 == 500
        base1 == IF market_conditions = "buyer_market" THEN base0 - 100
                 ELSE IF market_conditions = "seller_market" THEN base0 + 100
                 ELSE base0
        neighborhood_score == Get(market_data, "neighborhood_score", 50)
    IN  base1 - (neighborhood_score - 50) * 3

\* assess_investment_risk without the clamp on its return value
AssessInvestmentRisk_Unclamped(property_data, market_data) ==
    Nearest(BaseRisk(market_data), 10)

\* assess_investment_risk(property_data, market_data): the values it can
\* return, in tenths
AssessInvestmentRisk(property_data, market_data) ==
    { Max(10, Min(100, rounded)) : rounded \in Nearest(BaseRisk(market_data), 10) }

\* a direct call of assess_investment_risk
assess_investment_risk(property_data, market_data) ==
    /\ tool.name = None
    /\ \E result \in AssessInvestmentRisk(property_data, market_data) :
          tool' = [ name |-> "assess_investment_risk",
                    property_data |-> property_data,
                    market_data |-> market_data,
                    result |-> result ]
    /\ UNCHANGED <<sessions, memory_managers, memory_client, clock, resp, obs, sent,
                   dispatched, op, rt, research, proxy, flight>>

\* a Python exception that leaves a function, where a result would be
Raised(exception) == [ raised |-> exception ]

\* calculate_roi with the net income of one month where the code takes a year
CalculateRoi_MonthlyNet(purchase_price, monthly_rent, expenses) ==
    LET net_annual_income == monthly_rent - expenses
        cash_flow_monthly == monthly_rent - expenses
        annual_rent == monthly_rent * 12
    IN  IF purchase_price = 0
        THEN { Raised("ZeroDivisionError") }
        ELSE { [ roi_percentage |-> roi_percentage,
                 cash_flow_monthly |-> cash_flow_monthly,
                 rental_yield |-> rental_yield,
                 annual_net_income |-> net_annual_income ] :
               roi_percentage \in Nearest(net_annual_income * 100 * 100, purchase_price),
               rental_yield \in Nearest(annual_rent * 100 * 100, purchase_price) }

\* calculate_roi with a check of purchase_price in front
CalculateRoi_Validated(purchase_price, monthly_rent, expenses) ==
    LET annual_rent == monthly_rent * 12
        annual_expenses == expenses * 12
        net_annual_income == annual_rent - annual_expenses
        cash_flow_monthly == monthly_rent - expenses
    IN  IF purchase_price <= 0
        THEN { [ error |-> "purchase_price must be positive" ] }
        ELSE { [ roi_percentage |-> roi_percentage,
                 cash_flow_monthly |-> cash_flow_monthly,
                 rental_yield |-> rental_yield,
                 annual_net_income |-> net_annual_income ] :
               roi_percentage \in Nearest(net_annual_income * 100 * 100, purchase_price),
               rental_yield \in Nearest(annual_rent * 100 * 100, purchase_price) }

\* calculate_roi(purchase_price, monthly_rent, expenses): what a call can
\* give.  Amounts are whole dollars; roi_percentage and rental_yield are in
\* hundredths of a percent (round(x, 2)); the division raises when
\* purchase_price is 0.
CalculateRoi(purchase_price, monthly_rent, expenses) ==
    LET annual_rent == monthly_rent * 12
        annual_expenses == expenses * 12
        net_annual_income == annual_rent - annual_expenses
        cash_flow_monthly == monthly_rent - expenses
    IN  IF purchase_price = 0
        THEN { Raised("ZeroDivisionError") }
        ELSE { [ roi_percentage |-> roi_percentage,
                 cash_flow_monthly |-> cash_flow_monthly,
                 rental_yield |-> rental_yield,
                 annual_net_income |-> net_annual_income ] :
               roi_percentage \in Nearest(net_annual_income * 100 * 100, purchase_price),
               rental_yield \in Nearest(annual_rent * 100 * 100, purchase_price) }

\* a direct call of calculate_roi
calculate_roi(purchase_price, monthly_rent, expenses) ==
    /\ tool.name = None
    /\ \E result \in CalculateRoi(purchase_price, monthly_rent, expenses) :
          tool' = [ name |-> "calculate_roi",
                    purchase_price |-> purchase_price,
                    monthly_rent |-> monthly_rent,
                    expenses |-> expenses,
                    result |-> result ]
    /\ UNCHANGED <<sessions, memory_managers, memory_client, clock, resp, obs, sent,
                   dispatched, op, rt, research, proxy, flight>>

\* purchase prices: small ones, their negatives, zero, and the prices of the
\* specification's example and of test_tools_only
PurchasePrices ==
    (-MaxPrice)..MaxPrice \cup { -300000, 300000, 350000 }

\* monthly rents and monthly expenses
MonthlyAmounts == 0..MaxMonthly \cup { 500, 800, 2500, 2800 }

\* estimate_repair_costs without the cap on the age part
EstimateRepairCosts_NoAgeCap(property_data, kwargs, current_year) ==
    LET condition_score == Get(kwargs, "condition_score", 7)
        square_feet == Get(property_data, "square_feet", 1500)
        age == current_year - Get(property_data, "year_built", 2000)
        repair_per_sqft == Max(0, (10 - condition_score) * 5 * 2)
        age_factor == age
    IN  (repair_per_sqft + age_factor) * square_feet

\* estimate_repair_costs(property_data, condition_score=7), called in the
\* year current_year; kwargs holds condition_score when the caller gives it.
\* Amounts are in half dollars, so that age * 0.5 is the integer age; these
\* are exact in binary and round(x, 2) leaves them as they are.
EstimateRepairCosts(property_data, kwargs, current_year) ==
    LET condition_score == Get(kwargs, "condition_score", 7)
        square_feet == Get(property_data, "square_feet", 1500)
        age == current_year - Get(property_data, "year_built", 2000)
        repair_per_sqft == Max(0, (10 - condition_score) * 5 * 2)
        age_factor == Min(age, 10 * 2)
    IN  (repair_per_sqft + age_factor) * square_feet

\* a direct call of estimate_repair_costs
estimate_repair_costs(property_data, kwargs, current_year) ==
    /\ tool.name = None
    /\ tool' = [ name |-> "estimate_repair_costs",
                 property_data |-> property_data,
                 kwargs |-> kwargs,
                 current_year |-> current_year,
                 result |-> EstimateRepairCosts(property_data, kwargs, current_year) ]
    /\ UNCHANGED <<sessions, memory_managers, memory_client, clock, resp, obs, sent,
                   dispatched, op, rt, research, proxy, flight>>

\* datetime.now().year
CurrentYears == { 2025, 2026 }

\* property data: with or without square_feet, with or without year_built
\* (from MaxAge years ago to two years ahead)
RepairPropertyData ==
    { a @@ b :
        a \in Opt("square_feet", { 0, 1, 1500, 1800 }),
        b \in Opt("year_built", (2025 - MaxAge)..2028) }

\* condition scores, on and beyond the 1-10 scale
ConditionKwargs == Opt("condition_score", 0..12)

(* ---------------------- locations and public data ---------------------- *)
(* A location string is the sequence of the parts between its commas, so   *)
(* that location.split(',') is the sequence itself.  The parts are drawn   *)
(* from the texts below; strip(), lower() and upper() are tabulated on     *)
(* them.                                                                   *)

\* str.strip() on a part
Strip(s) ==
    CASE s = " AUSTIN " -> "AUSTIN"
      [] s = " Miami" -> "Miami"
      [] s = " TX" -> "TX"
      [] s = " Ca " -> "Ca"
      [] s = " Texas" -> "Texas"
      [] s = " " -> ""
      [] OTHER -> s

\* str.lower() on a stripped part
Lower(s) ==
    CASE s = "Austin" -> "austin"
      [] s = "AUSTIN" -> "austin"
      [] s = "Houston" -> "houston"
      [] s = "Dallas" -> "dallas"
      [] s = "San Antonio" -> "san antonio"
      [] s = "Los Angeles" -> "los angeles"
      [] s = "San Francisco" -> "san francisco"
      [] s = "New York" -> "new york"
      [] s = "Miami" -> "miami"
      [] s = "Seattle" -> "seattle"
      [] s = "Springfield" -> "springfield"
      [] s = "TX" -> "tx"
      [] s = "Ca" -> "ca"
      [] s = "NY" -> "ny"
      [] s = "FL" -> "fl"
      [] s = "WA" -> "wa"
      [] s = "ZZ" -> "zz"
      [] s = "Texas" -> "texas"
      [] OTHER -> s

\* str.upper() on a stripped part
Upper(s) ==
    CASE s = "Austin" -> "AUSTIN"
      [] s = "austin" -> "AUSTIN"
      [] s = "Houston" -> "HOUSTON"
      [] s = "Dallas" -> "DALLAS"
      [] s = "San Antonio" -> "SAN ANTONIO"
      [] s = "Los Angeles" -> "LOS ANGELES"
      [] s = "San Francisco" -> "SAN FRANCISCO"
      [] s = "New York" -> "NEW YORK"
      [] s = "Miami" -> "MIAMI"
      [] s = "Seattle" -> "SEATTLE"
      [] s = "Springfield" -> "SPRINGFIELD"
      [] s = "tx" -> "TX"
      [] s = "Ca" -> "CA"
      [] s = "Texas" -> "TEXAS"
      [] OTHER -> s

\* one record of demographic estimates; the two rates are in tenths of a
\* percent
Demographics(median_income, population, median_home_value, homeownership_rate, education_rate, total_commuters) ==
    [ median_income |-> median_income,
      population |-> population,
      median_home_value |-> median_home_value,
      homeownership_rate |-> homeownership_rate,
      education_rate |-> education_rate,
      total_commuters |-> total_commuters ]

\* PublicDataClient._get_city_demographics: the table, keyed by <<city, state>>
city_demographics ==
    (<<"austin", "TX">> :> Demographics(78000, 965000, 465000, 621, 472, 450000))
    @@ (<<"houston", "TX">> :> Demographics(52000, 2300000, 185000, 583, 321, 1100000))
    @@ (<<"dallas", "TX">> :> Demographics(52000, 1340000, 195000, 568, 354, 650000))
    @@ (<<"san antonio", "TX">> :> Demographics(49000, 1550000, 165000, 612, 289, 700000))
    @@ (<<"los angeles", "CA">> :> Demographics(65000, 3900000, 750000, 482, 381, 1800000))
    @@ (<<"san francisco", "CA">> :> Demographics(112000, 875000, 1350000, 378, 583, 420000))
    @@ (<<"new york", "NY">> :> Demographics(63000, 8400000, 680000, 332, 427, 3200000))
    @@ (<<"miami", "FL">> :> Demographics(44000, 470000, 385000, 521, 318, 220000))
    @@ (<<"seattle", "WA">> :> Demographics(93000, 750000, 820000, 475, 631, 380000))

\* PublicDataClient._get_city_demographics(city, state)
GetCityDemographics(city, state) ==
    IF <<city, state>> \in DOMAIN city_demographics
    THEN city_demographics[<<city, state>>]
    ELSE EmptyDict

\* PublicDataClient._get_state_estimates: the table of state averages
state_averages ==
    [ TX |-> Demographics(64000, 500000, 250000, 620, 350, 200000),
      CA |-> Demographics(75000, 400000, 650000, 550, 420, 180000),
      NY |-> Demographics(68000, 300000, 350000, 540, 400, 140000),
      FL |-> Demographics(55000, 250000, 280000, 680, 320, 120000),
      WA |-> Demographics(78000, 200000, 450000, 630, 450, 95000) ]

\* the national average _get_state_estimates falls back to
national_average == Demographics(62000, 300000, 350000, 650, 350, 150000)

\* _get_state_estimates that knows no state
GetStateEstimates_NationalOnly(state) == national_average

\* PublicDataClient._get_state_estimates(state)
GetStateEstimates(state) ==
    IF state \in DOMAIN state_averages THEN state_averages[state] ELSE national_average

\* PublicDataClient.get_demographic_data(location)
PublicGetDemographicData(location) ==
    LET location_parts == location
    IN  IF Len(location_parts) < 2
        THEN EmptyDict
        ELSE LET city == Lower(Strip(location_parts[1]))
                 state == Upper(Strip(location_parts[2]))
                 city_data == GetCityDemographics(city, state)
             IN  IF city_data # EmptyDict
                 THEN city_data
                 ELSE GetStateEstimates(state)

\* SchoolRatingsClient.get_school_ratings(location); ratings in tenths
GetSchoolRatings(location) ==
    IF Len(location) < 2
    THEN EmptyDict
    ELSE [ average_rating |-> 70, elementary_avg |-> 70, middle_avg |-> 70,
           high_avg |-> 70, total_schools |-> 10, schools_with_ratings |-> 8,
           data_source |-> "public_estimates" ]

\* CrimeDataClient.get_crime_data(location); rates and score in tenths
GetCrimeData(location) ==
    IF Len(location) < 2
    THEN EmptyDict
    ELSE [ crime_rate_per_1000 |-> 255, violent_crime_rate |-> 42,
           property_crime_rate |-> 213, safety_score |-> 75,
           trend |-> "decreasing", last_updated |-> "2024-01-01" ]

\* the five component scores of calculate_neighborhood_score before any
\* rounding, in units of 1/28000 of a point (28000 is a common denominator
\* of median_income / 70000 * 7.5, of rate / 35 * 10 and of rate / 70 * 10):
\* 10 points are 280000 units
ComponentScores(demographic_data, school_data, crime_data) ==
    LET median_income == Get(demographic_data, "median_income", 0)
        education_rate == Get(demographic_data, "education_rate", 0)
        avg_school_rating == Get(school_data, "average_rating", 0)
        safety_score == Get(crime_data, "safety_score", 50)
        homeownership_rate == Get(demographic_data, "homeownership_rate", 0)
    IN  [ income_score |-> IF median_income > 0
                           THEN Min(280000, median_income * 3) ELSE 0,
          education_score |-> IF education_rate > 0
                              THEN Min(280000, education_rate * 800) ELSE 0,
          school_score |-> IF avg_school_rating > 0
                           THEN avg_school_rating * 2800 ELSE 0,
          safety_score |-> safety_score * 2800,
          housing_score |-> IF homeownership_rate > 0
                            THEN Min(280000, homeownership_rate * 400) ELSE 0 ]

\* {k: round(v, 1) for k, v in scores.items()}: the dicts it can give, in
\* tenths of a point
RoundedScores(scores) ==
    { [ income_score |-> a, education_score |-> b, school_score |-> c,
        safety_score |-> d, housing_score |-> e ] :
      a \in Nearest(scores.income_score, 2800),
      b \in Nearest(scores.education_score, 2800),
      c \in Nearest(scores.school_score, 2800),
      d \in Nearest(scores.safety_score, 2800),
      e \in Nearest(scores.housing_score, 2800) }

\* the weighted sum of the component scores, in units of 1/2800000 of a
\* point (the weights are 25, 20, 25, 20 and 10 hundredths)
OverallScore(scores) ==
    25 * scores.income_score + 20 * scores.education_score
    + 25 * scores.school_score + 20 * scores.safety_score
    + 10 * scores.housing_score

\* calculate_neighborhood_score with the income weight given to housing too
CalculateNeighborhoodScore_HousingWeight(location) ==
    LET demographic_data == PublicGetDemographicData(location)
        school_data == GetSchoolRatings(location)
        crime_data == GetCrimeData(location)
        scores == ComponentScores(demographic_data, school_data, crime_data)
        overall_score == OverallScore(scores) + 15 * scores.housing_score
    IN  { [ overall_score |-> rounded,
            component_scores |-> components,
            data_sources |-> [ demographics_available |-> demographic_data # EmptyDict,
                               schools_available |-> school_data # EmptyDict,
                               crime_available |-> crime_data # EmptyDict ],
            metrics |-> [ median_income |-> Get(demographic_data, "median_income", 0),
                          school_rating |-> Get(school_data, "average_rating", 0),
                          safety_score |-> Get(crime_data, "safety_score", 50),
                          homeownership_rate |-> Get(demographic_data, "homeownership_rate", 0) ],
            location |-> location ] :
          rounded \in Nearest(overall_score, 280000),
          components \in RoundedScores(scores) }

\* calculate_neighborhood_score(location): what a call can return; the
\* scores returned are in tenths of a point (round(x, 1)).  The three clients
\* catch their own exceptions, so the except branch of the tool is not
\* entered for a location string.
CalculateNeighborhoodScore(location) ==
    LET demographic_data == PublicGetDemographicData(location)
        school_data == GetSchoolRatings(location)
        crime_data == GetCrimeData(location)
        scores == ComponentScores(demographic_data, school_data, crime_data)
        overall_score == OverallScore(scores)
    IN  { [ overall_score |-> rounded,
            component_scores |-> components,
            data_sources |-> [ demographics_available |-> demographic_data # EmptyDict,
                               schools_available |-> school_data # EmptyDict,
                               crime_available |-> crime_data # EmptyDict ],
            metrics |-> [ median_income |-> Get(demographic_data, "median_income", 0),
                          school_rating |-> Get(school_data, "average_rating", 0),
                          safety_score |-> Get(crime_data, "safety_score", 50),
                          homeownership_rate |-> Get(demographic_data, "homeownership_rate", 0) ],
            location |-> location ] :
          rounded \in Nearest(overall_score, 280000),
          components \in RoundedScores(scores) }

\* a direct call of calculate_neighborhood_score
calculate_neighborhood_score(location) ==
    /\ tool.name = None
    /\ \E result \in CalculateNeighborhoodScore(location) :
          tool' = [ name |-> "calculate_neighborhood_score",
                    location |-> location,
                    result |-> result ]
    /\ UNCHANGED <<sessions, memory_managers, memory_client, clock, resp, obs, sent,
                   dispatched, op, rt, research, proxy, flight>>

\* a direct call of PublicDataClient.get_demographic_data
public_get_demographic_data(location) ==
    /\ tool.name = None
    /\ tool' = [ name |-> "PublicDataClient.get_demographic_data",
                 location |-> location,
                 result |-> PublicGetDemographicData(location) ]
    /\ UNCHANGED <<sessions, memory_managers, memory_client, clock, resp, obs, sent,
                   dispatched, op, rt, research, proxy, flight>>

\* the tool get_demographic_data(location)
GetDemographicData(location) ==
    LET demographic_data == PublicGetDemographicData(location)
    IN  IF demographic_data = EmptyDict
        THEN [ error |-> "Demographic data not available" ]
        ELSE [ median_income |-> Get(demographic_data, "median_income", 0),
               population |-> Get(demographic_data, "population", 0),
               median_home_value |-> Get(demographic_data, "median_home_value", 0),
               homeownership_rate |-> Get(demographic_data, "homeownership_rate", 0),
               education_rate |-> Get(demographic_data, "education_rate", 0),
               total_commuters |-> Get(demographic_data, "total_commuters", 0),
               data_source |-> "Public demographic estimates",
               location |-> location ]

\* a direct call of the tool get_demographic_data
get_demographic_data(location) ==
    /\ tool.name = None
    /\ tool' = [ name |-> "get_demographic_data",
                 location |-> location,
                 result |-> GetDemographicData(location) ]
    /\ UNCHANGED <<sessions, memory_managers, memory_client, clock, resp, obs, sent,
                   dispatched, op, rt, research, proxy, flight>>

\* the sentiment one indicator contributes: positive below low, negative
\* above high
SentimentFactor(value, low, high) ==
    IF value < low THEN "positive"
    ELSE IF value > high THEN "negative"
    ELSE "neutral"

\* sentiment_factors.count(x)
Count(factors, x) == Cardinality({ i \in 1..Len(factors) : factors[i] = x })

\* get_market_trends that does not look at the format of the location
GetMarketTrends_NoFormatCheck(location, now) ==
    LET economic_data == [ unemployment_rate |-> 380, federal_funds_rate |-> 525,
                           data_source |-> "public_estimates" ]
        sentiment_factors ==
            << SentimentFactor(Get(economic_data, "unemployment_rate", 400), 400, 600),
               SentimentFactor(Get(economic_data, "federal_funds_rate", 500), 300, 600) >>
        positive_count == Count(sentiment_factors, "positive")
        negative_count == Count(sentiment_factors, "negative")
        market_sentiment == IF positive_count > negative_count THEN "positive"
                            ELSE IF negative_count > positive_count THEN "negative"
                            ELSE "neutral"
    IN  [ location |-> location,
          market_indicators |->
              [ overall_sentiment |-> market_sentiment,
                sentiment_factors |-> sentiment_factors,
                market_temperature |-> "balanced",
                investment_outlook |-> IF market_sentiment = "neutral"
                                       THEN "moderate" ELSE market_sentiment ],
          economic_data |-> economic_data,
          real_estate_trends |-> [ price_trend |-> "stable",
                                   inventory_level |-> "moderate",
                                   days_on_market_trend |-> "stable",
                                   buyer_demand |-> "moderate" ],
          timestamp |-> now ]

\* the tool get_market_trends(location), called at time now; the two rates
\* are in hundredths of a percent
GetMarketTrends(location, now) ==
    LET location_parts == location
    IN  IF Len(location_parts) < 2
        THEN [ error |-> "Invalid location format" ]
        ELSE
    LET economic_data == [ unemployment_rate |-> 380, federal_funds_rate |-> 525,
                           data_source |-> "public_estimates" ]
        sentiment_factors ==
            << SentimentFactor(Get(economic_data, "unemployment_rate", 400), 400, 600),
               SentimentFactor(Get(economic_data, "federal_funds_rate", 500), 300, 600) >>
        positive_count == Count(sentiment_factors, "positive")
        negative_count == Count(sentiment_factors, "negative")
        market_sentiment == IF positive_count > negative_count THEN "positive"
                            ELSE IF negative_count > positive_count THEN "negative"
                            ELSE "neutral"
    IN  [ location |-> location,
          market_indicators |->
              [ overall_sentiment |-> market_sentiment,
                sentiment_factors |-> sentiment_factors,
                market_temperature |-> "balanced",
                investment_outlook |-> IF market_sentiment = "neutral"
                                       THEN "moderate" ELSE market_sentiment ],
          economic_data |-> economic_data,
          real_estate_trends |-> [ price_trend |-> "stable",
                                   inventory_level |-> "moderate",
                                   days_on_market_trend |-> "stable",
                                   buyer_demand |-> "moderate" ],
          timestamp |-> now ]

\* a direct call of the tool get_market_trends
get_market_trends(location) ==
    /\ tool.name = None
    /\ tool' = [ name |-> "get_market_trends",
                 location |-> location,
                 result |-> GetMarketTrends(location, clock) ]
    /\ UNCHANGED <<sessions, memory_managers, memory_client, clock, resp, obs, sent,
                   dispatched, op, rt, research, proxy, flight>>

\* what the HasData service can answer to ZillowAPIClient.get_property_details:
\* status 200 with a JSON object, an empty object, a list or null; another
\* status; or no answer at all (the connection raises)
ZillowAnswers ==
    { [ kind |-> "object", body |-> [ zpid |-> "z1", address |-> "1 Main St",
                                      price |-> 350000, livingArea |-> 1800 ] ],
      [ kind |-> "object", body |-> [ zpid |-> "z2" ] ],
      [ kind |-> "object", body |-> EmptyDict ],
      [ kind |-> "list", body |-> << [ zpid |-> "z1" ] >> ],
      [ kind |-> "null", body |-> EmptyDict ],
      [ kind |-> "status", body |-> EmptyDict ],
      [ kind |-> "raise", body |-> EmptyDict ] }

\* ZillowAPIClient.get_property_details: the decoded JSON on status 200, {}
\* on another status or on an exception
ZillowGetPropertyDetails(zillow_url, answer) ==
    IF answer.kind \in { "status", "raise" }
    THEN [ kind |-> "object", body |-> EmptyDict ]
    ELSE answer

\* the tool get_zillow_property_details(zillow_url); a key the answer lacks
\* is None, or [] for the list-valued ones
GetZillowPropertyDetails(zillow_url, answer) ==
    LET property_details == ZillowGetPropertyDetails(zillow_url, answer)
        body == property_details.body
    IN  IF property_details.kind = "null" \/ body = EmptyDict
        THEN [ error |-> "Failed to fetch property details" ]
        ELSE IF property_details.kind = "list"
        THEN [ error |-> "'list' object has no attribute 'get'" ]
        ELSE [ zpid |-> Get(body, "zpid", None),
               address |-> Get(body, "address", None),
               price |-> Get(body, "price", None),
               living_area |-> Get(body, "livingArea", None),
               year_built |-> Get(body, "yearBuilt", None),
               images |-> Get(body, "photos", <<>>),
               agent_info |-> Get(body, "agentInfo", EmptyDict),
               coordinates |-> [ lat |-> Get(body, "latitude", None),
                                 lng |-> Get(body, "longitude", None) ],
               status |-> Get(body, "homeStatus", None) ]

\* a direct call of the tool get_zillow_property_details
get_zillow_property_details(zillow_url, answer) ==
    /\ tool.name = None
    /\ tool' = [ name |-> "get_zillow_property_details",
                 zillow_url |-> zillow_url,
                 answer |-> answer.kind,
                 result |-> GetZillowPropertyDetails(zillow_url, answer) ]
    /\ UNCHANGED <<sessions, memory_managers, memory_client, clock, resp, obs, sent,
                   dispatched, op, rt, research, proxy, flight>>

ZillowUrls == { "https://www.zillow.com/homedetails/1_zpid/", "not a url", "" }

\* the texts between the commas of a location
LocationParts ==
    { "Austin", "austin", " AUSTIN ", "Houston", "Dallas", "San Antonio",
      "Los Angeles", "San Francisco", "New York", " Miami", "Seattle",
      "Springfield", "TX", " TX", "tx", " Ca ", "NY", "FL", "WA", "ZZ",
      " Texas", "", " " }

\* location strings with up to MaxParts parts; those with more than two parts
\* end in "USA"
Locations ==
    UNION { { parts \in [1..n -> LocationParts \cup { "USA" }] :
                \A i \in 1..n : (parts[i] = "USA") <=> (i > 2) } :
            n \in 1..MaxParts }

\* the neighborhood scores handed to assess_investment_risk, in tenths
NeighborhoodScores == (-10 * MaxNeighborhoodScore)..(10 * MaxNeighborhoodScore)

MarketData ==
    { a @@ b :
        a \in Opt("market_conditions", { "buyer_market", "seller_market", "balanced" }),
        b \in Opt("neighborhood_score", NeighborhoodScores) }

NextTools ==
    \/ \E market_data \in MarketData :
          assess_investment_risk([ price |-> 350000, year_built |-> 2010 ], market_data)
    \/ \E purchase_price \in PurchasePrices, monthly_rent \in MonthlyAmounts,
          expenses \in MonthlyAmounts :
          calculate_roi(purchase_price, monthly_rent, expenses)
    \/ \E property_data \in RepairPropertyData, kwargs \in ConditionKwargs,
          current_year \in CurrentYears :
          estimate_repair_costs(property_data, kwargs, current_year)

SpecTools == Init /\ [][NextTools]_vars

NextData ==
    \/ \E location \in Locations : calculate_neighborhood_score(location)
    \/ \E location \in Locations : public_get_demographic_data(location)
    \/ \E location \in Locations : get_demographic_data(location)
    \/ \E location \in Locations : get_market_trends(location)
    \/ \E zillow_url \in ZillowUrls, answer \in ZillowAnswers :
          get_zillow_property_details(zillow_url, answer)

SpecData == Init /\ [][NextData]_vars

(* ------------------------ automated web research ---------------------- *)

\* AutomatedWebResearcher.research_targets, in the order of the dict
research_targets ==
    << [ key |-> "zillow_market", name |-> "Zillow Market Data", priority |-> 1 ],
       [ key |-> "realtor_insights", name |-> "Realtor.com Market Insights", priority |-> 1 ],
       [ key |-> "redfin_data", name |-> "Redfin Market Data", priority |-> 2 ],
       [ key |-> "census_demographics", name |-> "Census Demographics", priority |-> 3 ],
       [ key |-> "local_news", name |-> "Local Market News", priority |-> 2 ] >>

\* research_market_conditions that builds a task for every target
ResearchTasks_All == [ i \in 1..Len(research_targets) |-> research_targets[i].key ]

\* the keys of the targets research_market_conditions builds a task for, in
\* order: those of priority 1 or 2
ResearchTasks ==
    LET Pick[i \in 0..Len(research_targets)] ==
            IF i = 0 THEN <<>>
            ELSE IF research_targets[i].priority <= 2
                 THEN Append(Pick[i - 1], research_targets[i].key)
                 ELSE Pick[i - 1]
    IN  Pick[Len(research_targets)]

\* what can happen inside _research_single_target: NovaAct cannot be
\* started, nova.act raises, or nova.act returns a text that is parsed into
\* one or more insights
TargetOutcomes ==
    { [ kind |-> "start_raise", insights |-> 0 ],
      [ kind |-> "act_raise", insights |-> 0 ] }
    \cup { [ kind |-> "ok", insights |-> n ] : n \in 1..MaxInsights }

\* _research_single_target that calls nova.act a second time when it raised
ActCalls_Retry(outcome) ==
    IF outcome.kind = "start_raise" THEN 0
    ELSE IF outcome.kind = "act_raise" THEN 2
    ELSE 1

\* the number of nova.act calls _research_single_target makes
ActCalls(outcome) == IF outcome.kind = "start_raise" THEN 0 ELSE 1

\* target.name in name, for the names and keys of research_targets: no key
\* contains the display name of a target
NameInKey(target_name, key) == FALSE

\* sum(len(insights) for _, insights in completed_research)
InsightCount(completed_research) ==
    LET Total[i \in 0..Len(completed_research)] ==
            IF i = 0 THEN 0 ELSE Total[i - 1] + completed_research[i].insights
    IN  Total[Len(completed_research)]

\* _calculate_research_confidence(completed_research), in hundredths
CalculateResearchConfidence(completed_research) ==
    IF completed_research = <<>>
    THEN 0
    ELSE LET total_insights == InsightCount(completed_research)
             source_count == Len(completed_research)
             base_confidence == Min(90, source_count * 20 + total_insights * 5)
             high_priority_sources ==
                 Cardinality({ i \in 1..Len(completed_research) :
                     \E j \in 1..Len(research_targets) :
                         /\ research_targets[j].priority = 1
                         /\ NameInKey(research_targets[j].name,
                                      completed_research[i].target_name) })
         IN  Min(100, IF high_priority_sources >= 2
                      THEN base_confidence + 10 ELSE base_confidence)

\* research_market_conditions(location) up to its loop: the coroutine of every
\* task is created, none has started
research_market_conditions(location) ==
    /\ research.state = None
    /\ research' = [ state |-> "awaiting",
                     location |-> location,
                     research_tasks |-> ResearchTasks,
                     running |-> {},
                     researched |-> {},
                     failed |-> {},
                     act_calls |-> [ k \in { ResearchTasks[i] : i \in 1..Len(ResearchTasks) } |-> 0 ],
                     waited |-> 0,
                     completed_research |-> <<>>,
                     overlapped |-> FALSE,
                     result |-> EmptyDict ]
    /\ UNCHANGED <<sessions, memory_managers, memory_client, clock, resp, obs, sent,
                   dispatched, op, rt, tool, proxy, flight>>

\* `result = await task`: the loop hands control to the next coroutine; it
\* gets there only when the await before it has returned
await_task ==
    /\ research.state = "awaiting"
    /\ research.running = {}
    /\ research.research_tasks # <<>>
    /\ research' = [research EXCEPT
                       !.running = research.running \cup { Head(research.research_tasks) },
                       !.researched = research.researched \cup { Head(research.research_tasks) },
                       !.research_tasks = Tail(research.research_tasks),
                       !.overlapped = research.overlapped \/ research.running # {}]
    /\ UNCHANGED <<sessions, memory_managers, memory_client, clock, resp, obs, sent,
                   dispatched, op, rt, tool, proxy, flight>>

\* _research_single_target returns its insights; an exception inside it is
\* logged and gives the empty list, which the loop does not record
research_single_target(outcome) ==
    /\ research.state = "awaiting"
    /\ \E target_name \in research.running :
          research' = [research EXCEPT
              !.running = research.running \ { target_name },
              !.failed = IF outcome.kind = "ok" THEN research.failed
                         ELSE research.failed \cup { target_name },
              !.act_calls[target_name] = research.act_calls[target_name] + ActCalls(outcome),
              !.completed_research =
                  IF outcome.insights > 0
                  THEN Append(research.completed_research,
                              [ target_name |-> target_name, insights |-> outcome.insights ])
                  ELSE research.completed_research]
    /\ UNCHANGED <<sessions, memory_managers, memory_client, clock, resp, obs, sent,
                   dispatched, op, rt, tool, proxy, flight>>

\* research_market_conditions returns research_results
research_returns ==
    /\ research.state = "awaiting"
    /\ research.running = {}
    /\ research.research_tasks = <<>>
    /\ research' = [research EXCEPT
                       !.state = "done",
                       !.result =
                           [ location |-> research.location,
                             property_type |-> "residential",
                             insights |-> InsightCount(research.completed_research),
                             confidence_score |->
                                 CalculateResearchConfidence(research.completed_research) ]]
    /\ UNCHANGED <<sessions, memory_managers, memory_client, clock, resp, obs, sent,
                   dispatched, op, rt, tool, proxy, flight>>

NextResearch ==
    \/ \E location \in { <<"Austin", " TX">>, <<"Springfield">> } :
          research_market_conditions(location)
    \/ await_task
    \/ \E outcome \in TargetOutcomes : research_single_target(outcome)
    \/ research_returns

SpecResearch == Init /\ [][NextResearch]_vars

(* ------------------------------ the proxy ------------------------------ *)

\* simple_proxy.analyze: the number of attempts of its retry loop
max_retries == 3

\* the loop of analyze from attempt number `attempt` (0-based) on: calls is
\* the number of invoke_agent_runtime calls made so far, slept the seconds
\* spent in time.sleep; outcomes[i] is what the i-th call does
RECURSIVE ProxyAttempts(_, _, _, _)
ProxyAttempts(attempt, outcomes, calls, slept) ==
    IF outcomes[attempt + 1] = "ok"
    THEN [ status |-> 200, body |-> [ output |-> "result" ],
           calls |-> calls + 1, slept |-> slept ]
    ELSE IF attempt < max_retries - 1
    THEN ProxyAttempts(attempt + 1, outcomes, calls + 1, slept + 2)
    ELSE [ status |-> 500, body |-> [ error |-> "invoke_agent_runtime failed" ],
           calls |-> calls + 1, slept |-> slept ]

\* simple_proxy.analyze on a request body: the HTTP answer, with the calls
\* made and the seconds waited on the way.  kind is "invalid" when
\* request.get_json() raises, "object" when it returns a dict and "other"
\* when it returns another JSON value (a list, a string, a number, null);
\* data is the dict, and for "other" it is empty exactly when the value is
\* falsy.  A value that is not a dict has no .get: line 38 raises
\* AttributeError, which the except at line 67 answers
ProxyAnalyze(kind, data, outcomes) ==
    IF kind = "invalid"
    THEN [ status |-> 500, body |-> [ error |-> "Bad Request" ],
           calls |-> 0, slept |-> 0 ]
    ELSE IF data = EmptyDict
    THEN [ status |-> 400, body |-> [ error |-> "Invalid request format" ],
           calls |-> 0, slept |-> 0 ]
    ELSE IF kind # "object"
    THEN [ status |-> 500, body |-> [ error |-> "AttributeError: get" ],
           calls |-> 0, slept |-> 0 ]
    ELSE IF Get(data, "input", EmptyDict) = EmptyDict
    THEN [ status |-> 400, body |-> [ error |-> "Invalid request format" ],
           calls |-> 0, slept |-> 0 ]
    ELSE ProxyAttempts(0, outcomes, 0, 0)

\* one POST /analyze
analyze(kind, data, outcomes) ==
    /\ proxy.status = 0
    /\ proxy' = [ kind |-> kind, data |-> data, outcomes |-> outcomes ]
                    @@ ProxyAnalyze(kind, data, outcomes)
    /\ UNCHANGED <<sessions, memory_managers, memory_client, clock, resp, obs, sent,
                   dispatched, op, rt, tool, research, flight>>

\* request bodies of POST /analyze
ProxyData ==
    { EmptyDict, [ input |-> EmptyDict ], [ prompt |-> <<"hello">> ],
      [ input |-> [ prompt |-> <<"hello">>, type |-> "enhanced_analysis" ] ] }

\* what request.get_json() makes of a body
ProxyBodyKinds == { "invalid", "object", "other" }

\* what each invoke_agent_runtime call of one request does
ProxyOutcomes == [1..max_retries -> { "ok", "raise" }]

NextExternal ==
    \/ NextResearch
    \/ \E kind \in ProxyBodyKinds, data \in ProxyData, outcomes \in ProxyOutcomes :
          analyze(kind, data, outcomes)

SpecExternal == Init /\ [][NextExternal]_vars

(* ============================== claims ================================ *)

\* the last invoke returned the normal envelope
NormalEnvelope ==
    /\ "output" \in DOMAIN resp
    /\ { "message", "session_id", "analysis_metadata" } \subseteq DOMAIN resp.output

\* the last invoke returned the envelope of its except branch
ErrorEnvelope ==
    /\ "output" \in DOMAIN resp
    /\ "error" \in DOMAIN resp.output
    /\ "status" \in DOMAIN resp.output
    /\ resp.output.status = "error"

\* a dict carries the failure marker
FailureMarker(d) ==
    /\ "error" \in DOMAIN d
    /\ "status" \in DOMAIN d
    /\ d.status = "failed"

\* the session ids that callers name
ClientSessionIds == { "s1", "s2" }

\* C1: for a fixed session id, the response to the N-th invoke call that
\* carries a non-empty prompt reports the request count N.
C1_RequestCountIsN ==
    (obs.call > 0 /\ obs.prompt_given /\ obs.session_id \in ClientSessionIds) =>
        /\ NormalEnvelope
        /\ resp.output.analysis_metadata.session_requests = sent[obs.session_id]

\* C2: an invoke call whose input has no prompt, or the empty prompt,
\* returns the error envelope with an error message, never the normal
\* envelope, and runs no handler.
C2_MissingPromptRejected ==
    (obs.call > 0 /\ ~obs.prompt_given) =>
        /\ ErrorEnvelope
        /\ ~NormalEnvelope
        /\ obs.handler = None
        /\ obs.handler_status = None

\* C2 witness: a call without prompt got as far as the validation and was
\* rejected there
C2_Witness ==
    /\ obs.call > 0
    /\ ~obs.prompt_given
    /\ obs.attached
    /\ ErrorEnvelope
    /\ resp.output.error = "ValueError: No prompt found in input"

\* the handler of a request is decided by its type alone, or by its prompt
\* alone: the condition under which C3 asks two dispatches to agree
SameRoutingInput(a, b) ==
    \/ a.type \in KnownTypes /\ a.type = b.type
    \/ a.type = None /\ b.type = None /\ a.prompt = b.prompt

\* C3: two requests with the same known type run the same handler whatever
\* their prompts, and two requests without a type and with the same prompt
\* run the same handler, whatever the session held when each arrived.
C3_RoutingDeterministic ==
    \A a \in dispatched, b \in dispatched :
        SameRoutingInput(a, b) => a.handler = b.handler

\* C3 witness: two calls without a type and with the same prompt were both
\* dispatched, the second on the session the first had written to
C3_Witness ==
    \E a \in dispatched, b \in dispatched :
        /\ a.call < b.call
        /\ a.type = None /\ b.type = None /\ a.prompt = b.prompt
        /\ obs.call = b.call
        /\ Get(sessions[obs.session_id], "request_count", 0) = 2

\* the keyword sets in the order the claim gives them, each with its handler
KeywordOrder ==
    << [ keywords |-> MarketKeywords, handler |-> "market_research" ],
       [ keywords |-> OpportunityKeywords, handler |-> "investment_opportunities" ],
       [ keywords |-> EnhancedKeywords, handler |-> "enhanced_analysis" ],
       [ keywords |-> ResearchKeywords, handler |-> "automated_research" ],
       [ keywords |-> PropertyKeywords, handler |-> "property_analysis" ] >>

\* kw occurs in prompt when letter case is ignored
OccursIgnoringCase(prompt, kw) ==
    \E i \in 0..(Len(prompt) - Len(kw)) :
        \A j \in 1..Len(kw) : FragLower(prompt[i + j]) = FragLower(kw[j])

\* the sets of KeywordOrder that have a keyword occurring in prompt
MatchingSets(prompt) ==
    { n \in 1..Len(KeywordOrder) :
        \E kw \in KeywordOrder[n].keywords : OccursIgnoringCase(prompt, kw) }

\* C4: when the type is not a known one, the first keyword set (in the order
\* market, opportunities, enhanced, research, property) with a keyword that
\* occurs in the prompt, ignoring case, decides the handler, and a prompt
\* that matches no set goes to enhanced analysis.
C4_KeywordPriority ==
    (rt.handler # None /\ Get(rt.input, "type", "general") \notin KnownTypes) =>
        LET hits == MatchingSets(rt.input.prompt)
        IN  IF hits = {}
            THEN rt.handler = "enhanced_analysis"
            ELSE \E n \in hits :
                    /\ \A m \in hits : n <= m
                    /\ rt.handler = KeywordOrder[n].handler

\* C4 witness: a prompt in capitals that matches the market, the research and
\* the property sets was routed to market research
C4_Witness ==
    /\ rt.handler = "market_research"
    /\ "type" \notin DOMAIN rt.input
    /\ rt.input.prompt = <<"MARKET", " ", "research", "roi">>
    /\ MatchingSets(rt.input.prompt) = { 1, 4, 5 }

\* C5: no handler raises; each returns a dict that names its type, and when
\* an external call raised, the dict has `error` and status "failed".
C5_HandlersNeverRaise ==
    (obs.call > 0 /\ obs.validated) =>
        /\ obs.handler_status # "raised"
        /\ obs.handler \in KnownTypes
        /\ LET result == sessions[obs.session_id].last_response
           IN  /\ "type" \in DOMAIN result
               /\ result.type = obs.handler
               /\ obs.external = "raise" => FailureMarker(result)

\* C5 witness: the external call of investment opportunities raised and the
\* handler returned its failure dict
C5_Witness ==
    /\ obs.validated
    /\ obs.external = "raise"
    /\ obs.handler = "investment_opportunities"
    /\ FailureMarker(sessions[obs.session_id].last_response)

\* C6: when the handler of a request failed, the response invoke returns
\* carries `error` and status "failed" (in the output or in its message).
C6_FailureReachesCaller ==
    (obs.call > 0 /\ obs.handler_status = "failed") =>
        /\ NormalEnvelope
        /\ FailureMarker(resp.output) \/ FailureMarker(resp.output.message)

\* C7: a request that passed the prompt validation gets the normal envelope,
\* never the error envelope, whatever its handler and external calls did.
C7_RouterNeverFails ==
    (obs.call > 0 /\ obs.validated) => (NormalEnvelope /\ ~ErrorEnvelope)

\* C7 witness: the external call of property analysis raised and invoke
\* returned the normal envelope
C7_Witness ==
    /\ obs.validated
    /\ obs.external = "raise"
    /\ obs.handler = "property_analysis"
    /\ NormalEnvelope

\* C8: invoke called with a payload only (context None), a market_research
\* type and a non-empty prompt, runs the market research handler and returns
\* a message and a session id, not the error envelope.
C8_PayloadOnlyCallSucceeds ==
    (obs.call > 0 /\ ~obs.context_given /\ obs.prompt_given
       /\ obs.type_given = "market_research") =>
        /\ obs.handler = "market_research"
        /\ NormalEnvelope
        /\ ~ErrorEnvelope

\* seq1 is seq2 or an initial part of it
IsPrefix(seq1, seq2) ==
    /\ Len(seq1) <= Len(seq2)
    /\ SubSeq(seq2, 1, Len(seq1)) = seq1

\* what a session record has accumulated is still in the later record
Accumulates(before, after) ==
    /\ after.created_at = before.created_at
    /\ IsPrefix(before.analysis_history, after.analysis_history)
    /\ IsPrefix(before.properties_analyzed, after.properties_analyzed)
    /\ IsPrefix(Get(before, "research_history", <<>>), Get(after, "research_history", <<>>))
    /\ Get(before, "request_count", 0) <= Get(after, "request_count", 0)
    /\ DOMAIN before \subseteq DOMAIN after

C10_UpdateSessionFrame ==
    [][ op'.name = "update_session" =>
          LET session_id == op'.session_id
              data == op'.data
              before == IF session_id \in DOMAIN sessions
                        THEN sessions[session_id]
                        ELSE NewSession(op'.now)
              after == sessions'[session_id]
          IN  /\ DOMAIN sessions' = DOMAIN sessions \cup { session_id }
              /\ DOMAIN after = DOMAIN before \cup DOMAIN data \cup { "last_updated" }
              /\ \A k \in DOMAIN after :
                    after[k] = IF k = "last_updated" THEN op'.now
                               ELSE IF k \in DOMAIN data THEN data[k]
                               ELSE before[k]
              /\ \A other \in DOMAIN sessions \ { session_id } :
                    sessions'[other] = sessions[other] ]_vars

\* C10 witness: update_session wrote request_count into a record that an
\* earlier call had built and that holds keys the data does not name
C10_Witness ==
    /\ op.name = "update_session"
    /\ op.now = 2
    /\ DOMAIN op.data = { "request_count" }
    /\ sessions[op.session_id].created_at = 1
    /\ sessions[op.session_id].request_count = op.data.request_count
    /\ sessions[op.session_id].memory_enabled
    /\ sessions[op.session_id].last_updated = 2

\* C11 as stated: the risk is in [1.0, 10.0], and when the unrounded value
\* 5.0 -/+ 1.0 - 0.3 * (neighborhood_score - 5.0) lies in [1.0, 10.0] the
\* risk equals that value.
C11_RiskIsUnroundedFormula ==
    tool.name = "assess_investment_risk" =>
        /\ tool.result \in 10..100
        /\ BaseRisk(tool.market_data) \in 100..1000 =>
              tool.result * 10 = BaseRisk(tool.market_data)

\* C11, amended: the risk is in [1.0, 10.0] for every market_conditions and
\* every neighborhood_score in [-100, 100]; it is the value 5.0, minus 1.0
\* for buyer_market or plus 1.0 for seller_market, minus 0.3 per point of
\* neighborhood_score above 5.0, rounded to one decimal and then clamped.
C11_RiskIsRoundedFormula ==
    tool.name = "assess_investment_risk" =>
        LET market_conditions == Get(tool.market_data, "market_conditions", None)
            score == Get(tool.market_data, "neighborhood_score", 50)
            exact == 500 - (IF market_conditions = "buyer_market" THEN 100 ELSE 0)
                         + (IF market_conditions = "seller_market" THEN 100 ELSE 0)
                         - 3 * (score - 50)
        IN  /\ tool.result >= 10
            /\ tool.result <= 100
            /\ exact \in 95..1005 => Abs(tool.result * 10 - exact) <= 5
            /\ exact < 95 => tool.result = 10
            /\ exact > 1005 => tool.result = 100

\* C11 witness: the call of test_tools_only (balanced market, score 8.2)
\* returned 4.0, the rounding of 4.04
C11_Witness ==
    /\ tool.name = "assess_investment_risk"
    /\ tool.market_data = [ market_conditions |-> "balanced", neighborhood_score |-> 82 ]
    /\ BaseRisk(tool.market_data) = 404
    /\ tool.result = 40

C13_NoPriceValidation ==
    tool.name = "calculate_roi" =>
        /\ tool.purchase_price = 0 => tool.result = Raised("ZeroDivisionError")
        /\ tool.purchase_price < 0 =>
              /\ { "roi_percentage", "cash_flow_monthly", "rental_yield",
                   "annual_net_income" } \subseteq DOMAIN tool.result
              /\ "error" \notin DOMAIN tool.result
              /\ "raised" \notin DOMAIN tool.result

\* C13 witness: calculate_roi(0, 2500, 500) raised
C13_Witness ==
    /\ tool.name = "calculate_roi"
    /\ tool.purchase_price = 0 /\ tool.monthly_rent = 2500 /\ tool.expenses = 500
    /\ "raised" \in DOMAIN tool.result

\* C14: estimate_repair_costs returns (max(0, (10 - condition_score) * 5) +
\* min((current_year - year_built) * 0.5, 10)) * square_feet, with
\* square_feet 1500 and year_built 2000 when the property data omits them
\* and condition_score 7 by default; the age part is at most 10 per square
\* foot and the condition part is never negative.
C14_RepairCostFormula ==
    tool.name = "estimate_repair_costs" =>
        LET square_feet == IF "square_feet" \in DOMAIN tool.property_data
                           THEN tool.property_data.square_feet ELSE 1500
            year_built == IF "year_built" \in DOMAIN tool.property_data
                          THEN tool.property_data.year_built ELSE 2000
            condition_score == IF "condition_score" \in DOMAIN tool.kwargs
                               THEN tool.kwargs.condition_score ELSE 7
            age == tool.current_year - year_built
            \* both parts in half dollars per square foot
            condition_part == IF condition_score >= 10 THEN 0
                              ELSE (10 - condition_score) * 10
            age_part == IF age >= 20 THEN 20 ELSE age
        IN  /\ tool.result = (condition_part + age_part) * square_feet
            /\ condition_part >= 0
            /\ age_part <= 20
            /\ square_feet > 0 =>
                  /\ tool.result <= (condition_part + 20) * square_feet
                  /\ tool.result >= age_part * square_feet

\* C14 witness: the call of test_tools_only in 2026, 1800 square feet built
\* in 2010 with condition_score 7, returned (15 + 8) * 1800 = 41400 dollars
C14_Witness ==
    /\ tool.name = "estimate_repair_costs"
    /\ tool.property_data = [ square_feet |-> 1800, year_built |-> 2010 ]
    /\ tool.kwargs = [ condition_score |-> 7 ]
    /\ tool.current_year = 2026
    /\ tool.result = 41400 * 2

\* the capped components as C15 gives them, in units of 1/28000 of a point,
\* from the data the call found for its location
C15_Components(location) ==
    LET found == Len(location) >= 2
        data == IF ~found THEN EmptyDict
                ELSE IF <<Lower(Strip(location[1])), Upper(Strip(location[2]))>>
                          \in DOMAIN city_demographics
                THEN city_demographics[<<Lower(Strip(location[1])), Upper(Strip(location[2]))>>]
                ELSE IF Upper(Strip(location[2])) \in DOMAIN state_averages
                THEN state_averages[Upper(Strip(location[2]))]
                ELSE national_average
        capped(value) == IF value > 280000 THEN 280000 ELSE value
    IN  [ income |-> IF found THEN capped(data.median_income * 3) ELSE 0,
          education |-> IF found THEN capped(data.education_rate * 800) ELSE 0,
          school |-> IF found THEN 70 * 2800 ELSE 0,
          safety |-> IF found THEN 75 * 2800 ELSE 50 * 2800,
          housing |-> IF found THEN capped(data.homeownership_rate * 400) ELSE 0 ]

\* C15 as stated: overall_score is exactly 0.25*income + 0.20*education +
\* 0.25*school + 0.20*safety + 0.10*housing over the capped components, and
\* lies in [0, 10] for every location.
C15_OverallIsWeightedSum ==
    tool.name = "calculate_neighborhood_score" =>
        LET c == C15_Components(tool.location)
        IN  /\ tool.result.overall_score * 280000
                 = 25 * c.income + 20 * c.education + 25 * c.school
                   + 20 * c.safety + 10 * c.housing
            /\ tool.result.overall_score \in 0..100

\* C15, amended: overall_score is 0.25*income + 0.20*education + 0.25*school
\* + 0.20*safety + 0.10*housing over the capped components, rounded to one
\* decimal (at most 0.05 away), and lies in [0, 10] for every location,
\* including one for which no demographic data is found.
C15_OverallIsRoundedWeightedSum ==
    tool.name = "calculate_neighborhood_score" =>
        LET c == C15_Components(tool.location)
            weighted == 25 * c.income + 20 * c.education + 25 * c.school
                        + 20 * c.safety + 10 * c.housing
        IN  /\ 2 * Abs(tool.result.overall_score * 280000 - weighted) <= 280000
            /\ tool.result.overall_score \in 0..100
            /\ \A k \in { "income", "education", "housing" } : c[k] <= 280000
            /\ ~tool.result.data_sources.demographics_available =>
                  tool.result.overall_score = 10

\* C15 witness: calculate_neighborhood_score("Austin, TX") returned 8.2, the
\* rounding of 8.2264..., with the education component capped at 10
C15_Witness ==
    /\ tool.name = "calculate_neighborhood_score"
    /\ tool.location = <<"Austin", " TX">>
    /\ tool.result.overall_score = 82
    /\ tool.result.component_scores.education_score = 100
    /\ tool.result.component_scores.income_score = 84

\* the cities and the states the lookup lists
ListedCities ==
    { <<"austin", "TX">>, <<"houston", "TX">>, <<"dallas", "TX">>,
      <<"san antonio", "TX">>, <<"los angeles", "CA">>, <<"san francisco", "CA">>,
      <<"new york", "NY">>, <<"miami", "FL">>, <<"seattle", "WA">> }

ListedStates == { "TX", "CA", "NY", "FL", "WA" }

\* C17: for a location `city, ST` the demographic lookup returns the city's
\* own entry when the lower-cased city with the upper-cased state is a listed
\* city, otherwise the state's entry when the state is TX, CA, NY, FL or WA,
\* otherwise the national default; the result is never empty.
C17_DemographicCascade ==
    (tool.name = "PublicDataClient.get_demographic_data" /\ Len(tool.location) >= 2) =>
        LET city == Lower(Strip(tool.location[1]))
            state == Upper(Strip(tool.location[2]))
        IN  /\ tool.result # EmptyDict
            /\ "median_income" \in DOMAIN tool.result
            /\ IF <<city, state>> \in ListedCities
               THEN tool.result = city_demographics[<<city, state>>]
               ELSE IF state \in ListedStates
               THEN tool.result = state_averages[state]
               ELSE tool.result = national_average
            /\ (city = "austin" /\ state = "TX") => tool.result.median_income = 78000
            /\ (city = "springfield" /\ state = "FL") => tool.result.median_income = 55000
            /\ (city = "austin" /\ state = "ZZ") => tool.result.median_income = 62000

\* C17 witness: "Springfield,tx" is no listed city and got the Texas entry
C17_Witness ==
    /\ tool.name = "PublicDataClient.get_demographic_data"
    /\ tool.location = <<"Springfield", "tx">>
    /\ tool.result = state_averages["TX"]
    /\ tool.result.median_income = 64000

C20_SourcesResearchedConcurrently ==
    (research.state = "done" /\ Len(ResearchTasks) >= 2) => research.overlapped

\* C18 as stated: no external call is retried: for one request every
\* external service is called at most once, and a failed call is reported
\* without a second attempt and without any wait.
C18_NoCallIsRetried ==
    /\ research.state # None =>
          /\ \A target_name \in DOMAIN research.act_calls :
                research.act_calls[target_name] <= 1
          /\ research.waited = 0
    /\ proxy.status # 0 =>
          /\ proxy.calls <= 1
          /\ proxy.slept = 0

\* C18, amended: no external call is retried except by the proxy's /analyze,
\* which calls the agent runtime up to three times and waits two seconds
\* after every failed attempt but the last; the research of a source calls
\* its browser once at most and never waits.
C18_OnlyTheProxyRetries ==
    /\ research.state # None =>
          /\ \A target_name \in DOMAIN research.act_calls :
                research.act_calls[target_name] <= 1
          /\ research.waited = 0
    /\ proxy.status # 0 =>
          /\ proxy.calls <= 3
          /\ proxy.calls >= 1 => proxy.slept = 2 * (proxy.calls - 1)
          /\ proxy.calls = 0 => proxy.slept = 0
          /\ proxy.status = 200 =>
                /\ proxy.calls >= 1
                /\ proxy.outcomes[proxy.calls] = "ok"
                /\ \A i \in 1..(proxy.calls - 1) : proxy.outcomes[i] = "raise"
          /\ (proxy.status = 500 /\ proxy.calls >= 1) =>
                /\ proxy.calls = 3
                /\ \A i \in 1..3 : proxy.outcomes[i] = "raise"

\* C18 witness: the first two calls of a request to /analyze failed, the
\* third succeeded after four seconds of waiting
C18_Witness ==
    /\ proxy.status = 200
    /\ proxy.calls = 3
    /\ proxy.slept = 4
    /\ proxy.outcomes = <<"raise", "raise", "ok">>

\* two tokens that both decode and carry the same claims
C19_SameClaims(token, other) ==
    /\ token # EmptyDict /\ other # EmptyDict
    /\ token.well_formed /\ other.well_formed
    /\ token.claims = other.claims

\* C19: whether invoke treats a request as authenticated, and the user id it
\* then uses, depend on the claims of the token only: a call whose token
\* carries the same claims as the token of the call before it, whatever the
\* two signatures and whatever user_id the two inputs give, is authenticated
\* exactly when that call was and uses the same user id, the token's `sub`;
\* when both calls return the normal envelope, it reports the same
\* authentication and user id.
C19_AuthDependsOnlyOnClaims ==
    [][ (/\ obs.call # 0
         /\ obs'.call # obs.call
         /\ C19_SameClaims(obs.auth_token, obs'.auth_token))
        => /\ obs'.authenticated = obs.authenticated
           /\ obs'.user_id = obs.user_id
           /\ obs'.authenticated
           /\ obs'.user_id = obs'.auth_token.claims.sub
           /\ ("message" \in DOMAIN resp.output /\ "message" \in DOMAIN resp'.output)
                 => /\ resp'.output.authentication.authenticated
                         = resp.output.authentication.authenticated
                    /\ resp'.output.authentication.username
                         = resp.output.authentication.username
                    /\ resp'.output.user_id = resp.output.user_id ]_vars

\* C19 witness: the second call of a run carried a token whose signature does
\* not verify and a user_id of its own; it was authenticated as the token's
\* user and answered with the normal envelope under that user id
C19_Witness ==
    /\ obs.call = 2
    /\ obs.auth_token # EmptyDict
    /\ obs.auth_token.well_formed
    /\ ~obs.auth_token.signature_valid
    /\ obs.input_user_id = "mallory"
    /\ obs.authenticated
    /\ obs.user_id = "alice"
    /\ "message" \in DOMAIN resp.output
    /\ resp.output.user_id = "alice"
    /\ resp.output.authentication.authenticated

\* C21: invoke takes the session id from the context when the context has
\* one, otherwise from the input, otherwise it generates one; a call that
\* carries a prompt and no session id gets a record of its own: the response
\* reports the request count 1 and the record was built by this call and
\* holds at most what this call stored.
C21_SessionIdSourceAndFreshRecord ==
    obs.call > 0 =>
        /\ obs.session_id =
             IF obs.context_session_id # None THEN obs.context_session_id
             ELSE IF obs.input_session_id # None THEN obs.input_session_id
             ELSE GeneratedSessionId(obs.call)
        /\ (obs.prompt_given /\ obs.context_session_id = None
              /\ obs.input_session_id = None) =>
              /\ NormalEnvelope
              /\ resp.output.analysis_metadata.session_requests = 1
              /\ resp.output.analysis_metadata.analysis_history_count <= 1
              /\ sessions[obs.session_id].created_at = obs.call

\* the locations of the enhanced analyses recorded in a session
C22_LocationsAnalysed(session) ==
    { session.analysis_history[i].location :
        i \in { j \in 1..Len(session.analysis_history) :
                  Get(session.analysis_history[j], "analysis_type", None) = "enhanced" } }

\* C22: after any sequence of enhanced analyses in one session, the
\* unique_locations of the session context that the last enhanced analysis
\* returned is the number of distinct locations analysed in the session.
C22_UniqueLocationsCountsLocations ==
    (obs.call > 0 /\ obs.handler = "enhanced_analysis"
       /\ obs.handler_status = "completed") =>
        LET session == sessions[obs.session_id]
        IN  session.last_response.session_context.unique_locations
              = Cardinality(C22_LocationsAnalysed(session))

\* C23: research_market_conditions researches exactly the targets of
\* priority 1 or 2 (zillow_market, realtor_insights, redfin_data and
\* local_news, not census_demographics); a source whose web interaction
\* fails contributes no insights and the sources after it are researched all
\* the same; the call returns, and when every source failed it returns no
\* insights and the confidence 0.0.
C23_ResearchSurvivesFailingSources ==
    /\ research.state # None =>
          /\ research.researched \subseteq
               { "zillow_market", "realtor_insights", "redfin_data", "local_news" }
          /\ \A i \in 1..Len(research.completed_research) :
                research.completed_research[i].target_name \notin research.failed
    /\ (research.state = "awaiting" /\ research.running = {}) =>
          (ENABLED await_task \/ ENABLED research_returns)
    /\ research.state = "done" =>
          /\ research.researched =
               { "zillow_market", "realtor_insights", "redfin_data", "local_news" }
          /\ research.result.insights = InsightCount(research.completed_research)
          /\ { research.completed_research[i].target_name :
                 i \in 1..Len(research.completed_research) }
               = research.researched \ research.failed
          /\ research.failed = research.researched =>
                /\ research.result.insights = 0
                /\ research.result.confidence_score = 0

\* C23 witness: the first source failed, a later one gave insights, and the
\* call has returned
C23_Witness ==
    /\ research.state = "done"
    /\ "zillow_market" \in research.failed
    /\ "local_news" \notin research.failed
    /\ research.result.insights > 0

\* the keys of the sources in completed_research
C24_CompletedSources ==
    { research.completed_research[i].target_name :
        i \in 1..Len(research.completed_research) }

\* C24: the confidence is 0.0 when no source completed, otherwise
\* min(0.9, 0.2 * sources + 0.05 * insights), raised by 0.1 when the two
\* priority-1 sources zillow_market and realtor_insights are among the
\* completed ones, and never more than 1.0 (in hundredths).
C24_ConfidenceBoostedByPrioritySources ==
    research.state = "done" =>
        LET sources == Len(research.completed_research)
            insights == InsightCount(research.completed_research)
            base_confidence == Min(90, 20 * sources + 5 * insights)
        IN  /\ research.result.confidence_score <= 100
            /\ research.result.confidence_score =
                 IF sources = 0 THEN 0
                 ELSE IF { "zillow_market", "realtor_insights" } \subseteq C24_CompletedSources
                 THEN Min(100, base_confidence + 10)
                 ELSE base_confidence

\* the request body has no `input`: it is no JSON, or no JSON object, or an
\* object without the key
C25_BodyWithoutInput ==
    proxy.kind # "object" \/ "input" \notin DOMAIN proxy.data

\* C25: /analyze calls the agent runtime at most 3 times for one request,
\* returns the first successful result without a further attempt, waits (two
\* seconds) only between attempts and never after the last one, answers 500
\* exactly when all 3 attempts failed, and answers a body without `input`
\* with 400 and without any call to the runtime.
C25_ProxyRetriesAndValidates ==
    proxy.status # 0 =>
        /\ proxy.calls <= 3
        /\ proxy.status = 200 =>
              /\ proxy.calls >= 1
              /\ proxy.outcomes[proxy.calls] = "ok"
              /\ \A i \in 1..(proxy.calls - 1) : proxy.outcomes[i] = "raise"
        /\ proxy.slept = IF proxy.calls = 0 THEN 0 ELSE 2 * (proxy.calls - 1)
        /\ proxy.status = 500 <=>
              (proxy.calls = 3 /\ \A i \in 1..3 : proxy.outcomes[i] = "raise")
        /\ C25_BodyWithoutInput => (proxy.status = 400 /\ proxy.calls = 0)

\* the calls in flight that have returned the normal envelope
C26_Completed ==
    { r \in 1..MaxInflight :
        /\ flight[r].pc = "done"
        /\ "message" \in DOMAIN flight[r].response.output }

\* C26: when k requests for the same new session id are in flight at once
\* and interleave at their await points, no count is lost: once all have
\* completed, the session's request_count is k and the k responses report
\* the distinct counts 1..k.
C26_NoCountLost ==
    (C26_Completed # {} /\ \A r \in 1..MaxInflight : flight[r].pc # "awaiting") =>
        /\ Get(sessions["s1"], "request_count", 0) = Cardinality(C26_Completed)
        /\ { flight[r].response.output.analysis_metadata.session_requests :
               r \in C26_Completed } = 1..Cardinality(C26_Completed)

\* C26 witness: three requests were suspended at the same time, the last to
\* enter returned first, and all three have returned
C26_Witness ==
    /\ C26_Completed = 1..3
    /\ flight[3].overlapped = 2
    /\ flight[3].response.output.analysis_metadata.session_requests = 1
    /\ flight[1].response.output.analysis_metadata.session_requests = 3
    /\ sessions["s1"].request_count = 3

\* C27: a request processed for session id A never changes the record of
\* another session id B: every record but that of the call's own session id
\* is after the call what it was before it, key by key.
C27_OtherSessionsUntouched ==
    [][ obs'.call # obs.call =>
          \A session_id \in DOMAIN sessions \ { obs'.session_id } :
              /\ session_id \in DOMAIN sessions'
              /\ sessions'[session_id] = sessions[session_id] ]_vars

\* C27 witness: a request for s2 was processed and stored while the record
\* of s1 held the history of an earlier request
C27_Witness ==
    /\ obs.call = 2
    /\ obs.session_id = "s2"
    /\ obs.validated
    /\ { "s1", "s2" } \subseteq DOMAIN sessions
    /\ Get(sessions["s1"], "request_count", 0) = 1
    /\ Len(sessions["s1"].analysis_history) = 1
    /\ sessions["s1"].last_updated = 1
    /\ Get(sessions["s2"], "request_count", 0) = 1

\* C28: a request rejected for a missing or empty prompt does not increment
\* the session's request_count, does not change last_request or
\* last_response and appends to no history list, but it creates the record
\* of its session id when there was none.
C28_RejectedRequestLeavesSession ==
    [][ (obs'.call # obs.call /\ obs'.attached /\ ~obs'.prompt_given) =>
          LET session_id == obs'.session_id
              known == session_id \in DOMAIN sessions
              after == sessions'[session_id]
          IN  /\ ~obs'.validated
              /\ session_id \in DOMAIN sessions'
              /\ known =>
                    /\ Get(after, "request_count", 0)
                         = Get(sessions[session_id], "request_count", 0)
                    /\ Get(after, "last_request", None)
                         = Get(sessions[session_id], "last_request", None)
                    /\ Get(after, "last_response", None)
                         = Get(sessions[session_id], "last_response", None)
                    /\ after.analysis_history = sessions[session_id].analysis_history
                    /\ after.properties_analyzed = sessions[session_id].properties_analyzed
                    /\ Get(after, "research_history", <<>>)
                         = Get(sessions[session_id], "research_history", <<>>)
                    /\ after.created_at = sessions[session_id].created_at
              /\ ~known =>
                    /\ after.created_at = obs'.call
                    /\ { "request_count", "last_request", "last_response",
                         "research_history" } \cap DOMAIN after = {}
                    /\ after.analysis_history = <<>>
                    /\ after.properties_analyzed = <<>> ]_vars

\* C28 witness: a rejected request found the record an accepted request had
\* written to, and the record still holds one request and one analysis
C28_Witness ==
    /\ obs.call = 2
    /\ obs.attached
    /\ ~obs.prompt_given
    /\ ErrorEnvelope
    /\ sessions[obs.session_id].created_at = 1
    /\ Get(sessions[obs.session_id], "request_count", 0) = 1
    /\ Len(sessions[obs.session_id].analysis_history) = 1
    /\ "prompt" \in DOMAIN sessions[obs.session_id].last_request

\* C29: when property analysis, enhanced analysis or automated research
\* returns status "failed", the session's analysis_history,
\* properties_analyzed and research_history are exactly what they were
\* before the request, and the session's request_count is one more.
C29_FailedHandlerLeavesHistories ==
    [][ (/\ obs'.call # obs.call
         /\ obs'.handler_status = "failed"
         /\ obs'.handler \in { "property_analysis", "enhanced_analysis",
                               "automated_research" })
        => LET session_id == obs'.session_id
               before == IF session_id \in DOMAIN sessions
                         THEN sessions[session_id]
                         ELSE NewSession(obs'.call)
               after == sessions'[session_id]
           IN  /\ after.analysis_history = before.analysis_history
               /\ after.properties_analyzed = before.properties_analyzed
               /\ Get(after, "research_history", <<>>)
                    = Get(before, "research_history", <<>>)
               /\ Get(after, "request_count", 0)
                    = Get(before, "request_count", 0) + 1 ]_vars

\* the last call ran enhanced analysis to completion
C30_EnhancedCompleted ==
    /\ obs.validated
    /\ obs.handler = "enhanced_analysis"
    /\ obs.handler_status = "completed"
    /\ obs.session_id \in DOMAIN sessions

\* the last call was dispatched through keyword routing
C30_Routed == obs.type_given \notin KnownTypes

\* C30: a request dispatched through keyword routing (type absent, general
\* or unknown) runs its handler without the memory manager: its enhanced
\* analysis reports memory_integration "disabled" and records
\* memory_enabled false even when the session has a memory manager, whereas
\* a request of type enhanced_analysis for a session with a memory manager
\* takes the memory path (memory_integration "enabled").
C30_RoutedEnhancedAnalysisWithoutMemory ==
    C30_EnhancedCompleted =>
        LET session == sessions[obs.session_id]
            analysis == session.last_response.enhanced_analysis
            record == session.analysis_history[Len(session.analysis_history)]
        IN  /\ C30_Routed =>
                /\ analysis.memory_integration = "disabled"
                /\ ~record.memory_enabled
                /\ ~session.last_response.session_context.memory_enabled
            /\ obs.type_given = "enhanced_analysis" =>
                /\ analysis.memory_integration
                     = (IF obs.memory_manager THEN "enabled" ELSE "disabled")
                /\ record.memory_enabled = obs.memory_manager

\* a routed enhanced analysis of a session that has a memory manager, after an
\* enhanced_analysis request of the same session took the memory path
C30_Witness ==
    /\ C30_EnhancedCompleted
    /\ C30_Routed
    /\ obs.memory_manager
    /\ sessions[obs.session_id].last_response.enhanced_analysis.memory_integration
         = "disabled"
    /\ \E i \in 1..Len(sessions[obs.session_id].analysis_history) :
         sessions[obs.session_id].analysis_history[i].memory_enabled

====
